---- MODULE Spec2Model ----
(***************************************************************************)
(* Verification model of the ziafont font engine bundled with WriteTeX     *)
(* (src/1.x.x/lib/ziafont): cmap loading, GSUB substitution, GPOS          *)
(* positioning, glyf outline decoding and CFF charstring reading.          *)
(*                                                                         *)
(* The module holds several state machines, one per part of the engine.    *)
(* Every machine has its own variables and its own specification; the      *)
(* variables of the machines a specification does not run stay at their    *)
(* idle value (None).                                                      *)
(***************************************************************************)
EXTENDS Integers, Sequences, FiniteSets, TLC

VARIABLES
    \* Font._readcmap
    cmaptables,     \* formats of the subtables the cmap directory lists, in font order
    ctable,         \* index (1-based) of the subtable the loop is at
    cmap,           \* Font.cmap: the active cmap, NoCmap for Python None
    cmaps,          \* Font.cmaps: the decoded cmaps, in order
    cmapState       \* "reading" | "loaded" | "error" (ValueError)

cmapVars == <<cmaptables, ctable, cmap, cmaps, cmapState>>

VARIABLES
    \* Cmap4.__init__ / Cmap4.glyphid
    c4Segs,         \* the parallel arrays startcodes, endcodes, iddeltas, idrangeoffset, one record per segment
    c4Array,        \* glyphidarray
    c4Seg,          \* segment the constructor loop is at (0-based, as enumerate gives it)
    c4Glyphmap,     \* Cmap4.glyphmap: charid -> glyph id
    c4State,        \* "building" | "built" | "error" (IndexError)
    c4Call          \* the last glyphid call as <<ord(char), result>>, <<>> before the first

c4Vars == <<c4Segs, c4Array, c4Seg, c4Glyphmap, c4State, c4Call>>

VARIABLES
    \* GposSubtable.adjust: one call on one subtable
    adjSub,         \* the subtable (self)
    adjGids,        \* *glyphids
    adjDeltas,      \* the returned list of PositionDelta, <<>> before the call returns
    adjState        \* "ready" | "returned" | "error"

adjVars == <<adjSub, adjGids, adjDeltas, adjState>>

VARIABLES
    \* Gpos.position: one call
    gposFeattable,  \* features_available(): ordered (name, lookups) entries of the font
    gposFeatures,   \* the features argument: name -> bool
    gposGids,       \* gids, the glyph ids of the glyphs argument
    gposDelta,      \* the local `delta` after the loop over the features
    gposXY,         \* the returned list of (x, y)
    gposState       \* "ready" | "returned"

gposVars == <<gposFeattable, gposFeatures, gposGids, gposDelta, gposXY, gposState>>

VARIABLES
    \* LookupLigatureSub.sub: one call, one loop iteration per step
    ligSub,      \* the subtable (self): covtable and ligsets
    ligGids,     \* glyphids
    ligI,        \* i
    ligNew,      \* newgids
    ligState     \* "scanning" | "returned"

ligVars == <<ligSub, ligGids, ligI, ligNew, ligState>>

VARIABLES
    \* Gsub.sub: one call
    gsubFeattable,    \* features_available(): ordered (name, lookups) entries of the font
    gsubFeatures,     \* the features argument: name -> bool
    gsubGids,         \* the glyphids argument
    gsubApplied,      \* the apply_feature calls made, in order: the feature names
    gsubResult,       \* the returned glyph ids
    gsubState         \* "ready" | "returned"

gsubVars == <<gsubFeattable, gsubFeatures, gsubGids, gsubApplied, gsubResult, gsubState>>

VARIABLES
    \* GSUBLookup.sub on a lookup list with chained-context subtables
    chLookups,    \* Gsub.lookups: each lookup the list of its subtables
    chInput,      \* the glyph ids handed to lookups[0].sub
    chStack,      \* the GSUBLookup.sub calls in progress, innermost last
    chFired,      \* the last rule match as <<record>>, <<>> before the first
    chResult,     \* the returned glyph ids
    chState       \* "running" | "returned" | "error" (IndexError, RecursionError)

chainVars == <<chLookups, chInput, chStack, chFired, chResult, chState>>

VARIABLES
    \* Font.glyph_fromid on two Font objects loaded from the same bytes
    glyfFont,     \* the font file: cells, table offsets, cursor after loading
    glyfCursor,   \* per Font object: position of its FontReader
    glyfCache,    \* per Font object: _glyphs, glyph id -> operators of the glyph
    glyfFresh,    \* per Font object: the glyph id it was asked for when just loaded (NoIdx: none, or that call raised)
    glyfStack,    \* the read_glyph_glyf calls in progress, innermost last
    glyfActive,   \* the Font object of the call in progress or of the last call
    glyfState     \* "idle" | "decoding" | "returned" | "error" (an exception of a read
                  \* or of _buildcompound left glyph_fromid) | "overflow" (RecursionError)

glyfVars == <<glyfFont, glyfCursor, glyfCache, glyfFresh, glyfStack, glyfActive, glyfState>>

VARIABLES
    \* one call of a lookup function on tables that are already parsed
    callFn,       \* the function that is called
    callArgs,     \* the object it is called on and its arguments
    callResult,   \* the value it returns; before the call a value of its type
    callState     \* "ready" | "done"

callVars == <<callFn, callArgs, callResult, callState>>

VARIABLES
    \* Font.usecmap and Font.glyphindex on a loaded font
    useCmaps,     \* Font.cmaps: the glyphmap of each decoded cmap
    useCmap,      \* Font.cmap: the active cmap, as its index in cmaps
    useGlyphids,  \* Font._glyphids: character -> glyph id
    useCall       \* <<char, gid>> of the last glyphindex call; <<>> before
                  \* the first call and after a usecmap call

useVars == <<useCmaps, useCmap, useGlyphids, useCall>>

VARIABLES
    \* charstr2path: one CFF charstring read by CharString and turned into a path
    csFont,       \* the charstring and the CFF data it is read with
    csFrames,     \* the readcharstr calls in progress: buf, the place in it (pc)
                  \* and whether the call has met its return operator (ret)
    csStack,      \* CharString.stack, numbers in units of 1/65536
    csOps,        \* CharString.operators and .operands, zipped
    csNhints,     \* CharString.nhints
    csOut,        \* what charstr2path returns: width and path
    csLog,        \* history of the read, for the statements about it: an unknown
                  \* operator ended a loop before any endchar (broke), a byte was
                  \* read behind a return (afterret), the first operator with the
                  \* stack it met (first), the stem hints declared (hints), the
                  \* last mask operator (mask)
    csState       \* "reading" | "read" | "done" | "error"

csVars == <<csFont, csFrames, csStack, csOps, csNhints, csOut, csLog, csState>>

vars == <<cmapVars, c4Vars, adjVars, gposVars, ligVars, gsubVars, chainVars, glyfVars, callVars,
          useVars, csVars>>

\* Idle value of the variables of a machine that a specification does not run.
None == "None"

Max(a, b) == IF a >= b THEN a ELSE b
Min(a, b) == IF a <= b THEN a ELSE b

\* All sequences over S of length 0..n.
SeqsUpTo(S, n) == UNION {[1..k -> S] : k \in 0..n}

(***************************************************************************)
(* Font._readcmap: selection of the active cmap                            *)
(***************************************************************************)

\* Bound: number of subtables in the cmap directory.
MaxCmapTables == 4

\* Subtable formats a font may list; 0 and 6 stand for the formats the
\* loader does not decode.
CmapFormats == {0, 4, 6, 12}

\* Python None for Font.cmap.
NoCmap == [fmt |-> 0, table |-> 0]

\* A decoded Cmap4 / Cmap12 object, identified by the directory entry it was read from.
CmapObject(fmt, i) == [fmt |-> fmt, table |-> i]

\* font.py:255  `if self.cmap is None`
Cmap4Replaces(active) == active = NoCmap

\* Mutant of Cmap12Replaces: the isinstance(self.cmap, Cmap4) test is lost.
Cmap12ReplacesOnlyNone(active) == active = NoCmap

\* font.py:272  `if self.cmap is None or isinstance(self.cmap, Cmap4)`
Cmap12Replaces(active) == active = NoCmap \/ active.fmt = 4

\* The machines other than m do not run: their variables hold the idle value.
OthersIdle(m) ==
    /\ IF m = "Cmap" THEN TRUE
       ELSE cmaptables = None /\ ctable = None /\ cmap = None /\ cmaps = None /\ cmapState = None
    /\ IF m = "C4" THEN TRUE
       ELSE c4Segs = None /\ c4Array = None /\ c4Seg = None /\ c4Glyphmap = None /\ c4State = None /\ c4Call = None
    /\ IF m = "Adj" THEN TRUE
       ELSE adjSub = None /\ adjGids = None /\ adjDeltas = None /\ adjState = None
    /\ IF m = "Gpos" THEN TRUE
       ELSE gposFeattable = None /\ gposFeatures = None /\ gposGids = None /\ gposDelta = None /\ gposXY = None /\ gposState = None
    /\ IF m = "Lig" THEN TRUE
       ELSE ligSub = None /\ ligGids = None /\ ligI = None /\ ligNew = None /\ ligState = None
    /\ IF m = "Gsub" THEN TRUE
       ELSE gsubFeattable = None /\ gsubFeatures = None /\ gsubGids = None /\ gsubApplied = None /\ gsubResult = None /\ gsubState = None
    /\ IF m = "Chain" THEN TRUE
       ELSE chLookups = None /\ chInput = None /\ chStack = None /\ chFired = None /\ chResult = None /\ chState = None
    /\ IF m = "Call" THEN TRUE
       ELSE callFn = None /\ callArgs = None /\ callResult = None /\ callState = None
    /\ IF m = "Glyf" THEN TRUE
       ELSE glyfFont = None /\ glyfCursor = None /\ glyfCache = None /\ glyfFresh = None /\ glyfStack = None /\ glyfActive = None /\ glyfState = None
    /\ IF m = "Use" THEN TRUE
       ELSE useCmaps = None /\ useCmap = None /\ useGlyphids = None /\ useCall = None
    /\ IF m = "Cs" THEN TRUE
       ELSE csFont = None /\ csFrames = None /\ csStack = None /\ csOps = None /\ csNhints = None
            /\ csOut = None /\ csLog = None /\ csState = None

\* A step of machine m leaves the variables of the other machines alone.
OthersUnchanged(m) ==
    /\ IF m = "Cmap" THEN TRUE ELSE UNCHANGED cmapVars
    /\ IF m = "C4" THEN TRUE ELSE UNCHANGED c4Vars
    /\ IF m = "Adj" THEN TRUE ELSE UNCHANGED adjVars
    /\ IF m = "Gpos" THEN TRUE ELSE UNCHANGED gposVars
    /\ IF m = "Lig" THEN TRUE ELSE UNCHANGED ligVars
    /\ IF m = "Gsub" THEN TRUE ELSE UNCHANGED gsubVars
    /\ IF m = "Chain" THEN TRUE ELSE UNCHANGED chainVars
    /\ IF m = "Glyf" THEN TRUE ELSE UNCHANGED glyfVars
    /\ IF m = "Call" THEN TRUE ELSE UNCHANGED callVars
    /\ IF m = "Use" THEN TRUE ELSE UNCHANGED useVars
    /\ IF m = "Cs" THEN TRUE ELSE UNCHANGED csVars

\* State after the directory (platform, encoding, offset) triples are read
\* and before the loop over them (font.py:220-222).
CmapInit ==
    /\ cmaptables \in SeqsUpTo(CmapFormats, MaxCmapTables)
    /\ ctable = 1
    /\ cmap = NoCmap
    /\ cmaps = <<>>
    /\ cmapState = "reading"
    /\ OthersIdle("Cmap")

\* One iteration of `for ctable in cmaptables` with cmapformat == 4.
ReadCmap4 ==
    /\ cmapState = "reading"
    /\ ctable <= Len(cmaptables)
    /\ cmaptables[ctable] = 4
    /\ LET c == CmapObject(4, ctable) IN
        /\ cmap' = IF Cmap4Replaces(cmap) THEN c ELSE cmap
        /\ cmaps' = Append(cmaps, c)
    /\ ctable' = ctable + 1
    /\ UNCHANGED <<cmaptables, cmapState>>
    /\ OthersUnchanged("Cmap")

\* One iteration of `for ctable in cmaptables` with cmapformat == 12.
ReadCmap12 ==
    /\ cmapState = "reading"
    /\ ctable <= Len(cmaptables)
    /\ cmaptables[ctable] = 12
    /\ LET c == CmapObject(12, ctable) IN
        /\ cmap' = IF Cmap12Replaces(cmap) THEN c ELSE cmap
        /\ cmaps' = Append(cmaps, c)
    /\ ctable' = ctable + 1
    /\ UNCHANGED <<cmaptables, cmapState>>
    /\ OthersUnchanged("Cmap")

\* One iteration with any other format: neither branch is taken.
SkipCmap ==
    /\ cmapState = "reading"
    /\ ctable <= Len(cmaptables)
    /\ cmaptables[ctable] \notin {4, 12}
    /\ ctable' = ctable + 1
    /\ UNCHANGED <<cmaptables, cmap, cmaps, cmapState>>
    /\ OthersUnchanged("Cmap")

\* After the loop: ValueError when nothing was decoded (font.py:276-277).
FinishCmap ==
    /\ cmapState = "reading"
    /\ ctable > Len(cmaptables)
    /\ cmapState' = IF Len(cmaps) = 0 THEN "error" ELSE "loaded"
    /\ UNCHANGED <<cmaptables, ctable, cmap, cmaps>>
    /\ OthersUnchanged("Cmap")

CmapNext == ReadCmap4 \/ ReadCmap12 \/ SkipCmap \/ FinishCmap

CmapSpec == CmapInit /\ [][CmapNext]_vars

\* C10: after load the active cmap is a format-12 subtable whenever a
\* format-12 subtable was decoded, a format-4 subtable only when none was;
\* a subtable of another format is never decoded and never active.
C10_Format12Preferred ==
    /\ \A k \in 1..Len(cmaps) : cmaps[k].fmt \in {4, 12}
    /\ cmap # NoCmap => cmap.fmt = cmaptables[cmap.table] /\ cmap.fmt \in {4, 12}
    /\ cmapState = "loaded" =>
        /\ cmap # NoCmap
        /\ (\E i \in 1..Len(cmaptables) : cmaptables[i] = 12) => cmap.fmt = 12
        /\ cmap.fmt = 4 => \A i \in 1..Len(cmaptables) : cmaptables[i] # 12
    /\ (\E k \in 1..Len(cmaps) : cmaps[k].fmt = 12) => cmap.fmt = 12

\* C10 witness: a font that lists a format-4 subtable before a format-12 one
\* (and an undecoded format) has finished loading with the format-12 one active.
C10_Witness ==
    /\ cmapState = "loaded"
    /\ \E i, j, k \in 1..Len(cmaptables) :
        /\ i < j /\ cmaptables[i] = 4 /\ cmaptables[j] = 12
        /\ cmaptables[k] \notin {4, 12}
    /\ cmap.fmt = 12

(***************************************************************************)
(* Cmap4: the format-4 segmented character map                             *)
(***************************************************************************)

\* Bound: number of segments of the format-4 subtable.
MaxSegs == 2

\* The segments of the model: the range (startCode, endCode) is 'A'..'Z',
\* a range inside it, or one that touches the top of the 16-bit range;
\* idDelta (read with readuint16) is 2, 3 or 65535 (-1); idRangeOffset
\* (bytes) is 0, which selects the delta formula, or 2.
C4Segments ==
    {[start |-> r[1], end |-> r[2], delta |-> d, rangeoffset |-> o] :
        r \in {<<65, 90>>, <<66, 67>>, <<65534, 65535>>}, d \in {2, 3, 65535}, o \in {0, 2}}

\* Mutant of Cmap4DeltaGid: the reduction modulo 0x10000 is lost.
Cmap4DeltaGidNoWrap(delta, i) == delta + i

\* cmap.py:68  `gid = (self.iddeltas[seg] + i) % 0x10000`
Cmap4DeltaGid(delta, i) == (delta + i) % 65536

\* cmap.py:61-64  index into glyphidarray (seg is 0-based, // is floor division).
Cmap4ArrayIdx(seg, nsegs, s, i) == seg - nsegs + (s.rangeoffset \div 2) + i - s.start

\* Python list indexing self.glyphidarray[idx]: a negative idx counts from the
\* end; outside -len..len-1 it raises IndexError.
Cmap4ArrayInRange(arr, idx) == -Len(arr) <= idx /\ idx < Len(arr)
Cmap4ArrayAt(arr, idx) == IF idx < 0 THEN arr[idx + Len(arr) + 1] ELSE arr[idx + 1]

\* cmap.py:60-68  the glyph id of character i in segment seg.
Cmap4SegGid(seg, nsegs, s, arr, i) ==
    IF s.rangeoffset # 0
    THEN LET gid == Cmap4ArrayAt(arr, Cmap4ArrayIdx(seg, nsegs, s, i))
         IN IF gid > 0 THEN s.delta + gid ELSE 0
    ELSE Cmap4DeltaGid(s.delta, i)

\* cmap.py:76-79  Cmap4.glyphid: self.glyphmap.get(charid, 0)
Cmap4Glyphid(glyphmap, charid) ==
    IF charid \in DOMAIN glyphmap THEN glyphmap[charid] ELSE 0

\* The subtable as font.py:227-254 hands it to the constructor.
C4Init ==
    /\ c4Segs \in SeqsUpTo(C4Segments, MaxSegs)
    /\ c4Array \in {<<>>, <<0, 7>>}
    /\ c4Seg = 0
    /\ c4Glyphmap = <<>>
    /\ c4State = "building"
    /\ c4Call = <<>>
    /\ OthersIdle("C4")

\* One iteration of `for seg, startcode in enumerate(self.startcodes)`: the
\* whole inner loop over range(startcode, endcodes[seg]+1).  A glyphidarray
\* index out of range raises IndexError out of the constructor.
Cmap4Segment ==
    /\ c4State = "building"
    /\ c4Seg < Len(c4Segs)
    /\ LET s == c4Segs[c4Seg + 1]
           n == Len(c4Segs)
           chars == s.start .. s.end
           raises == /\ s.rangeoffset # 0
                     /\ \E i \in chars :
                            ~Cmap4ArrayInRange(c4Array, Cmap4ArrayIdx(c4Seg, n, s, i))
       IN IF raises
          THEN /\ c4State' = "error"
               /\ UNCHANGED <<c4Glyphmap, c4Seg>>
          ELSE /\ c4Glyphmap' = [i \in (DOMAIN c4Glyphmap) \cup chars |->
                                   IF i \in chars
                                   THEN Cmap4SegGid(c4Seg, n, s, c4Array, i)
                                   ELSE c4Glyphmap[i]]
               /\ c4Seg' = c4Seg + 1
               /\ UNCHANGED c4State
    /\ UNCHANGED <<c4Segs, c4Array, c4Call>>
    /\ OthersUnchanged("C4")

\* The loop over the segments is over: the constructor returns.
Cmap4Built ==
    /\ c4State = "building"
    /\ c4Seg = Len(c4Segs)
    /\ c4State' = "built"
    /\ UNCHANGED <<c4Segs, c4Array, c4Seg, c4Glyphmap, c4Call>>
    /\ OthersUnchanged("C4")

\* A call of Cmap4.glyphid(char) on the constructed cmap.
Cmap4GlyphidCall ==
    /\ c4State = "built"
    /\ \E c \in {64, 65, 66, 67, 90, 91, 65534, 65535, 65536} :
        c4Call' = <<c, Cmap4Glyphid(c4Glyphmap, c)>>
    /\ UNCHANGED <<c4Segs, c4Array, c4Seg, c4Glyphmap, c4State>>
    /\ OthersUnchanged("C4")

C4Next == Cmap4Segment \/ Cmap4Built \/ Cmap4GlyphidCall

C4Spec == C4Init /\ [][C4Next]_vars

\* The character and the result of the last glyphid call.
C9_Char == c4Call[1]
C9_Gid == c4Call[2]

\* The segments (1-based positions in the arrays) that contain character c.
C9_SegsOf(c) == {k \in 1..Len(c4Segs) : c4Segs[k].start <= c /\ c <= c4Segs[k].end}

\* The last segment, in table order, that contains c.
C9_LastSegOf(c) == CHOOSE k \in C9_SegsOf(c) : \A j \in C9_SegsOf(c) : j <= k

\* C9 as stated: every character inside a segment s with idRangeOffset[s] = 0
\* maps to (idDelta[s] + c) mod 65536, and every character outside all
\* segments maps to glyph 0.
C9_AsStated ==
    (c4State = "built" /\ c4Call # <<>>) =>
        /\ \A k \in C9_SegsOf(C9_Char) :
              c4Segs[k].rangeoffset = 0 => C9_Gid = (c4Segs[k].delta + C9_Char) % 65536
        /\ C9_SegsOf(C9_Char) = {} => C9_Gid = 0

\* C9 amended: a character maps as the LAST segment (in table order) that
\* contains it says: when that segment has idRangeOffset = 0 the glyph id is
\* (idDelta + c) mod 65536, which lies in 0..65535 ('A' with start 65, end 90,
\* idDelta 3 gives 68); a character outside all segments maps to glyph 0.
C9_LastSegmentDelta ==
    (c4State = "built" /\ c4Call # <<>>) =>
        /\ C9_SegsOf(C9_Char) # {} =>
              LET s == c4Segs[C9_LastSegOf(C9_Char)]
              IN s.rangeoffset = 0 =>
                    /\ C9_Gid = (s.delta + C9_Char) % 65536
                    /\ C9_Gid \in 0..65535
                    /\ (s.start = 65 /\ s.end = 90 /\ s.delta = 3 /\ C9_Char = 65) => C9_Gid = 68
        /\ C9_SegsOf(C9_Char) = {} => C9_Gid = 0

\* C9 witness: a character looked up in a delta segment whose sum wraps past 65535.
C9_Witness ==
    /\ c4State = "built" /\ c4Call # <<>>
    /\ C9_SegsOf(C9_Char) # {}
    /\ LET s == c4Segs[C9_LastSegOf(C9_Char)]
       IN s.rangeoffset = 0 /\ s.delta + C9_Char > 65535 /\ C9_Gid = s.delta + C9_Char - 65536

(***************************************************************************)
(* Common layout tables (tables.py): Coverage and ClassDef                 *)
(***************************************************************************)

\* Python None as a coverage index (tables.py:60, 67): indexes are >= 0.
NoIdx == -1

\* Coverage tables: format 1 lists glyphs, format 2 lists ranges.
Cov1(glyphs) == [format |-> 1, glyphs |-> glyphs, ranges |-> <<>>, nulltable |-> FALSE]
Cov2(ranges) == [format |-> 2, glyphs |-> <<>>, ranges |-> ranges, nulltable |-> FALSE]
CovRange(startglyph, endglyph, covidx) ==
    [startglyph |-> startglyph, endglyph |-> endglyph, covidx |-> covidx]

\* list.index: 0-based position of the first occurrence, NoIdx for ValueError.
ListIndex(list, x) ==
    IF \E k \in 1..Len(list) : list[k] = x
    THEN (CHOOSE k \in 1..Len(list) : list[k] = x /\ \A j \in 1..(k-1) : list[j] # x) - 1
    ELSE NoIdx

\* Coverage.covidx without the start index of the range.
CovIdxNoBase(cov, glyph) ==
    IF cov.nulltable THEN NoIdx
    ELSE IF cov.format = 1 THEN ListIndex(cov.glyphs, glyph)
    ELSE LET hits == {k \in 1..Len(cov.ranges) :
                        cov.ranges[k].startglyph <= glyph /\ glyph <= cov.ranges[k].endglyph}
         IN IF hits = {} THEN NoIdx
            ELSE glyph - cov.ranges[CHOOSE k \in hits : \A j \in hits : k <= j].startglyph

\* tables.py:51-68  Coverage.covidx
CovIdx(cov, glyph) ==
    IF cov.nulltable THEN NoIdx
    ELSE IF cov.format = 1 THEN ListIndex(cov.glyphs, glyph)
    ELSE LET hits == {k \in 1..Len(cov.ranges) :
                        cov.ranges[k].startglyph <= glyph /\ glyph <= cov.ranges[k].endglyph}
         IN IF hits = {} THEN NoIdx
            ELSE LET r == cov.ranges[CHOOSE k \in hits : \A j \in hits : k <= j]
                 IN r.covidx + (glyph - r.startglyph)

\* Class definitions: format 1 is start + array, format 2 is ranges; "blank"
\* is ClassDefBlank.
ClassDef1(startglyph, classvalues) ==
    [format |-> 1, startglyph |-> startglyph, classvalues |-> classvalues, ranges |-> <<>>]
ClassDef2(ranges) ==
    [format |-> 2, startglyph |-> 0, classvalues |-> <<>>, ranges |-> ranges]
ClassDefBlank == [format |-> 0, startglyph |-> 0, classvalues |-> <<>>, ranges |-> <<>>]
ClassRange(startglyph, endglyph, cls) ==
    [startglyph |-> startglyph, endglyph |-> endglyph, cls |-> cls]

\* tables.py:115-127 ClassDef.get_class, tables.py:139-140 ClassDefBlank.get_class
GetClass(cd, glyphid) ==
    IF cd.format = 0 THEN 0
    ELSE IF cd.format = 1
    THEN IF cd.startglyph <= glyphid /\ glyphid < cd.startglyph + Len(cd.classvalues)
         THEN cd.classvalues[glyphid - cd.startglyph + 1]
         ELSE 0
    ELSE LET hits == {k \in 1..Len(cd.ranges) :
                        cd.ranges[k].startglyph <= glyphid /\ glyphid <= cd.ranges[k].endglyph}
         IN IF hits = {} THEN 0
            ELSE cd.ranges[CHOOSE k \in hits : \A j \in hits : k <= j].cls

(***************************************************************************)
(* GPOS (gpos.py): positioning subtables                                   *)
(***************************************************************************)

\* Bound: length of the glyph sequence handed to a subtable's adjust.
MaxAdjGids == 4

\* Font.advance(glyph, None): the hmtx advance width of each glyph.
FontAdvance(g) == IF g = 5 THEN 500 ELSE IF g = 6 THEN 600 ELSE 10

PositionDelta(dx, dy, dadvance) == [dx |-> dx, dy |-> dy, dadvance |-> dadvance]

\* Mutant of merge_delta: the second delta replaces the first.
merge_delta_overwrite(d1, d2) == d2

\* gpos.py:193-196
merge_delta(d1, d2) ==
    PositionDelta(d1.dx + d2.dx, d1.dy + d2.dy, d1.dadvance + d2.dadvance)

\* gpos.py:199-201  zip stops at the shorter list
merge_deltas(deltas1, deltas2) ==
    [k \in 1..Min(Len(deltas1), Len(deltas2)) |-> merge_delta(deltas1[k], deltas2[k])]

\* A value record as readvaluerecord returns it (fontread.py:65-84): the
\* fields x, y, xadvance, 0 for a field the format leaves out (the dict is
\* only read with .get(field, 0)).  A variable holding a record is <<rec>>,
\* holding None is <<>>.
ValueRec(x, y, xadvance) == [x |-> x, y |-> y, xadvance |-> xadvance]

\* gpos.py:204-210
valuerec_to_delta(vrec) ==
    IF vrec = <<>> THEN PositionDelta(0, 0, 0)
    ELSE PositionDelta(vrec[1].x, vrec[1].y, vrec[1].xadvance)

PairValue(secondglyph, value1, value2) ==
    [secondglyph |-> secondglyph, value1 |-> value1, value2 |-> value2]

\* Subtable objects.  Fields a type does not have are left empty.
SingleAdjustmentSubtable(coverage, valuerecord) ==
    [type |-> "single1", coverage |-> coverage, valuerecord |-> valuerecord]
PairAdjustmentSubtable1(coverage, pairsets) ==
    [type |-> "pair", posformat |-> 1, coverage |-> coverage, pairsets |-> pairsets,
     class1def |-> ClassDefBlank, class2def |-> ClassDefBlank, classrecords |-> <<>>]
PairAdjustmentSubtable2(coverage, class1def, class2def, classrecords) ==
    [type |-> "pair", posformat |-> 2, coverage |-> coverage, pairsets |-> <<>>,
     class1def |-> class1def, class2def |-> class2def, classrecords |-> classrecords]
MarkToBaseSubtable(markcoverage, basecoverage, markarray, basearray) ==
    [type |-> "markbase", markcoverage |-> markcoverage, basecoverage |-> basecoverage,
     markarray |-> markarray, basearray |-> basearray]
MarkRecord(markclass, x, y) == [markclass |-> markclass, anchortable |-> [x |-> x, y |-> y]]
\* A base anchor, <<anchor>>, or <<>> for None (offset 0, gpos.py:446-447).
Anchor(x, y) == <<[x |-> x, y |-> y]>>

\* gpos.py:235-251  SingleAdjustmentSubtable.adjust
SingleAdjust(sub, glyphids) ==
    [k \in 1..Len(glyphids) |->
        IF CovIdx(sub.coverage, glyphids[k]) # NoIdx
        THEN PositionDelta(sub.valuerecord.x, sub.valuerecord.y, sub.valuerecord.xadvance)
        ELSE PositionDelta(0, 0, 0)]

\* gpos.py:273-289  SingleAdjustmentSubtable2.adjust.  In
\* `covidx := self.coverage.covidx(gid) is not None` the name is bound to
\* the result of the comparison, so a covered glyph reads valuerecords[True],
\* the record at index 1.
SingleAdjust2(sub, glyphids) ==
    [k \in 1..Len(glyphids) |->
        IF CovIdx(sub.coverage, glyphids[k]) # NoIdx
        THEN PositionDelta(sub.valuerecords[1 + 1].x, sub.valuerecords[1 + 1].y,
                           sub.valuerecords[1 + 1].xadvance)
        ELSE PositionDelta(0, 0, 0)]

\* gpos.py:384-394  the value records after the lookup of the second glyph:
\* format 1 assigns them only when the pair is found in the pair set, and
\* otherwise leaves valuerec1, valuerec2 as the loop's earlier iterations set them.
PairValueRecs(sub, covidx, gid0, gid, valuerec1, valuerec2) ==
    IF sub.posformat = 1
    THEN LET pairs == sub.pairsets[covidx + 1]
             hits == {k \in 1..Len(pairs) : pairs[k].secondglyph = gid}
         IN IF hits = {} THEN <<valuerec1, valuerec2>>
            ELSE LET p == pairs[CHOOSE k \in hits : \A j \in hits : k <= j]
                 IN <<p.value1, p.value2>>
    ELSE LET c1 == GetClass(sub.class1def, gid0)
             c2 == GetClass(sub.class2def, gid)
         IN sub.classrecords[c1 + 1][c2 + 1]

\* gpos.py:375-399  PairAdjustmentSubtable.adjust: the loop
\* `for gid, gid0 in zip(glyphids[1:], glyphids[:-1])` from its k-th
\* iteration on.  The call starts it at k = 1 with deltas = [PositionDelta(0,0,0)]
\* and valuerec1 = valuerec2 = None, which are set once, before the loop.
RECURSIVE PairAdjust(_, _, _, _, _, _)
PairAdjust(sub, glyphids, k, deltas, valuerec1, valuerec2) ==
    IF k >= Len(glyphids) THEN deltas
    ELSE LET gid0 == glyphids[k]
             gid == glyphids[k + 1]
             covidx == CovIdx(sub.coverage, gid0)
         IN IF covidx = NoIdx
            THEN PairAdjust(sub, glyphids, k + 1,
                                Append(deltas, PositionDelta(0, 0, 0)), valuerec1, valuerec2)
            ELSE LET v == PairValueRecs(sub, covidx, gid0, gid, valuerec1, valuerec2)
                     n == Len(deltas)
                     merged == [deltas EXCEPT ![n] = merge_delta(deltas[n], valuerec_to_delta(v[1]))]
                 IN PairAdjust(sub, glyphids, k + 1,
                                   Append(merged, valuerec_to_delta(v[2])), v[1], v[2])

\* Mutant of MarkToBaseAdjust: the mark keeps its advance.
MarkToBaseKeepAdvance(sub, glyphids, advances) ==
    [k \in 1..Max(Len(glyphids), 1) |->
        IF k = 1 THEN PositionDelta(0, 0, 0)
        ELSE LET markid == CovIdx(sub.markcoverage, glyphids[k])
                 baseid == CovIdx(sub.basecoverage, glyphids[k - 1])
             IN IF markid = NoIdx \/ baseid = NoIdx THEN PositionDelta(0, 0, 0)
                ELSE LET markanchor == sub.markarray[markid + 1]
                         baseanchor == sub.basearray[baseid + 1][markanchor.markclass + 1]
                     IN IF baseanchor = <<>> THEN PositionDelta(0, 0, 0)
                        ELSE PositionDelta(
                                baseanchor[1].x - markanchor.anchortable.x - advances[k - 1],
                                baseanchor[1].y - markanchor.anchortable.y, 0)]

\* gpos.py:475-495  MarkToBaseSubtable.adjust; advances[i] is the advance of gid0.
MarkToBaseAdjust(sub, glyphids, advances) ==
    [k \in 1..Max(Len(glyphids), 1) |->
        IF k = 1 THEN PositionDelta(0, 0, 0)
        ELSE LET gid == glyphids[k]
                 gid0 == glyphids[k - 1]
                 markid == CovIdx(sub.markcoverage, gid)
                 baseid == CovIdx(sub.basecoverage, gid0)
             IN IF markid = NoIdx \/ baseid = NoIdx THEN PositionDelta(0, 0, 0)
                ELSE LET markanchor == sub.markarray[markid + 1]
                         baseanchor == sub.basearray[baseid + 1][markanchor.markclass + 1]
                     IN IF baseanchor = <<>> THEN PositionDelta(0, 0, 0)
                        ELSE LET dx == baseanchor[1].x - markanchor.anchortable.x - advances[k - 1]
                                 dy == baseanchor[1].y - markanchor.anchortable.y
                             IN PositionDelta(dx, dy, -dx)]

\* subtable.adjust(*glyphids, advances=advances, lookups=lookups), by subtable class.
SubtableAdjust(sub, glyphids, advances) ==
    IF sub.type = "single1" THEN SingleAdjust(sub, glyphids)
    ELSE IF sub.type = "single2" THEN SingleAdjust2(sub, glyphids)
    ELSE IF sub.type = "pair"
    THEN PairAdjust(sub, glyphids, 1, <<PositionDelta(0, 0, 0)>>, <<>>, <<>>)
    ELSE MarkToBaseAdjust(sub, glyphids, advances)

\* The pair subtable of the specification's example: first glyph 5, pair
\* (second 6, value1 xAdvance -20).
PairExample ==
    PairAdjustmentSubtable1(Cov1(<<5>>),
        << <<PairValue(6, <<ValueRec(0, 0, -20)>>, <<ValueRec(0, 0, 0)>>)>> >>)

\* Pair subtables of the model: format 1 over a glyph list and over a range,
\* with one or two covered first glyphs, and format 2 (class pairs).
PairSubtables ==
    { PairExample,
      PairAdjustmentSubtable1(Cov1(<<5, 6>>),
        << <<PairValue(6, <<ValueRec(0, 0, -20)>>, <<ValueRec(3, 0, 0)>>)>>,
           <<PairValue(5, <<ValueRec(0, 0, -7)>>, <<ValueRec(0, 2, 0)>>),
             PairValue(7, <<ValueRec(1, 0, 0)>>, <<ValueRec(0, 0, 0)>>)>> >>),
      PairAdjustmentSubtable1(Cov2(<<CovRange(5, 6, 0)>>),
        << <<PairValue(7, <<ValueRec(0, 0, -5)>>, <<ValueRec(2, 0, 0)>>)>>, <<>> >>),
      PairAdjustmentSubtable2(Cov1(<<5, 6>>),
        ClassDef2(<<ClassRange(5, 5, 1)>>), ClassDef1(6, <<1>>),
        << << <<<<ValueRec(0, 0, 0)>>, <<ValueRec(0, 0, 0)>>>>,
              <<<<ValueRec(0, 0, -1)>>, <<ValueRec(0, 0, 0)>>>> >>,
           << <<<<ValueRec(0, 0, 0)>>, <<ValueRec(0, 0, 0)>>>>,
              <<<<ValueRec(0, 0, -30)>>, <<ValueRec(4, 0, 0)>>>> >> >>) }

SingleExample == SingleAdjustmentSubtable(Cov1(<<6>>), ValueRec(1, 2, 40))

MarkExample ==
    MarkToBaseSubtable(Cov1(<<7>>), Cov1(<<5, 6>>),
        <<MarkRecord(0, 30, 100)>>,
        << <<Anchor(250, 700)>>, <<<<>>>> >>)

\* The subtables of the model: the pair subtables, the single adjustment of
\* format 1, the mark-to-base subtable and two single adjustments of format
\* 2 (SingleAdjustmentSubtable2), with one value record for each covered
\* glyph.
AdjSubtables ==
    PairSubtables \cup {SingleExample, MarkExample}
    \cup {[type |-> "single2", coverage |-> Cov1(<<5, 6>>),
           valuerecords |-> <<ValueRec(1, 0, 10), ValueRec(2, 3, 20)>>],
          [type |-> "single2", coverage |-> Cov1(<<6>>),
           valuerecords |-> <<ValueRec(3, 0, 30)>>]}

Advances(glyphids) == [k \in 1..Len(glyphids) |-> FontAdvance(glyphids[k])]

AdjInit ==
    /\ adjSub \in AdjSubtables
    /\ adjGids \in SeqsUpTo({5, 6, 7}, MaxAdjGids)
    /\ adjDeltas = <<>>
    /\ adjState = "ready"
    /\ OthersIdle("Adj")

\* subtable.adjust(*glyphids, advances=advances, lookups=lookups) called and
\* returned, or left by the IndexError of valuerecords[True] in a format-2
\* single adjustment with fewer than two value records.
AdjustCall ==
    /\ adjState = "ready"
    /\ IF /\ adjSub.type = "single2"
          /\ Len(adjSub.valuerecords) < 2
          /\ \E k \in 1..Len(adjGids) : CovIdx(adjSub.coverage, adjGids[k]) # NoIdx
       THEN /\ adjDeltas' = <<>>
            /\ adjState' = "error"
       ELSE /\ adjDeltas' = SubtableAdjust(adjSub, adjGids, Advances(adjGids))
            /\ adjState' = "returned"
    /\ UNCHANGED <<adjSub, adjGids>>
    /\ OthersUnchanged("Adj")

AdjSpec == AdjInit /\ [][AdjustCall]_vars

\* The value records format 1 lists for the pair (g1, g2): <<value1, value2>>
\* when g1 is covered and g2 is in g1's pair set, none otherwise.
C3_PairListed(sub, g1, g2) ==
    /\ CovIdx(sub.coverage, g1) # NoIdx
    /\ \E k \in 1..Len(sub.pairsets[CovIdx(sub.coverage, g1) + 1]) :
          sub.pairsets[CovIdx(sub.coverage, g1) + 1][k].secondglyph = g2
C3_PairContribution(sub, g1, g2, which) ==
    IF C3_PairListed(sub, g1, g2)
    THEN LET pairs == sub.pairsets[CovIdx(sub.coverage, g1) + 1]
             p == pairs[CHOOSE k \in 1..Len(pairs) :
                          /\ pairs[k].secondglyph = g2
                          /\ \A j \in 1..(k - 1) : pairs[j].secondglyph # g2]
         IN valuerec_to_delta(IF which = 1 THEN p.value1 ELSE p.value2)
    ELSE PositionDelta(0, 0, 0)

\* C3: pair adjustment (format 1) treats every adjacent pair on its own: a
\* listed pair adds value1 to the first glyph and value2 to the second; a
\* pair that is not listed, or whose first glyph is uncovered, contributes
\* zero to both, whatever pairs came earlier.  With the example subtable,
\* [5,6] gives glyph 0 dAdvance -20 and [5,7] gives 0.
C3_PairsIndependent ==
    (adjState = "returned" /\ adjSub.type = "pair" /\ adjSub.posformat = 1
        /\ Len(adjGids) >= 1) =>
        /\ Len(adjDeltas) = Len(adjGids)
        /\ \A k \in 1..Len(adjGids) :
              adjDeltas[k] =
                merge_delta(
                    IF k > 1 THEN C3_PairContribution(adjSub, adjGids[k - 1], adjGids[k], 2)
                             ELSE PositionDelta(0, 0, 0),
                    IF k < Len(adjGids) THEN C3_PairContribution(adjSub, adjGids[k], adjGids[k + 1], 1)
                                        ELSE PositionDelta(0, 0, 0))
        /\ (adjSub = PairExample /\ adjGids = <<5, 6>>) => adjDeltas[1].dadvance = -20
        /\ (adjSub = PairExample /\ adjGids = <<5, 7>>) => adjDeltas[1].dadvance = 0

(***************************************************************************)
(* GPOS (gpos.py): Gpos.position                                           *)
(***************************************************************************)

\* Bound: number of glyphs handed to Gpos.position.
MaxGposGids == 3

\* gpos.py:16
GposPermFeatures == {"mark", "mkmk", "curs"}

\* A lookup is the sequence of its subtables; a feature of the feature
\* table is its tag with the lookups (gpos.py:73-82, gsub.py:577-582).
Feature(tag, lookups) == [tag |-> tag, lookups |-> lookups]

\* features_available(): a dict, so an ordered list of features with distinct tags.
Feattables(family) ==
    {ft \in SeqsUpTo(family, Cardinality(family)) :
        \A a, b \in 1..Len(ft) : a # b => ft[a].tag # ft[b].tag}

\* The features argument: a dict with a flag for some of the tags.
FeatureDicts(tags) == UNION {[T -> BOOLEAN] : T \in SUBSET tags}

GposFeatureFamily ==
    { Feature("kern", <<
        << PairExample,
           PairAdjustmentSubtable1(Cov1(<<5, 6>>),
            << <<PairValue(6, <<ValueRec(0, 0, -20)>>, <<ValueRec(3, 0, 0)>>)>>,
               <<PairValue(5, <<ValueRec(0, 0, -7)>>, <<ValueRec(0, 2, 0)>>),
                 PairValue(7, <<ValueRec(1, 0, 0)>>, <<ValueRec(0, 0, 0)>>)>> >>) >> >>),
      Feature("mark", << <<MarkExample>> >>),
      Feature("dist", << <<SingleExample>>,
                             <<PairAdjustmentSubtable1(Cov2(<<CovRange(5, 6, 0)>>),
                                 << <<PairValue(7, <<ValueRec(0, 0, -5)>>, <<ValueRec(2, 0, 0)>>)>>,
                                    <<>> >>)>> >>) }

\* features.get(feat, False)
FeatureGet(features, feat) == IF feat \in DOMAIN features THEN features[feat] ELSE FALSE

ZeroDeltas(glyphids) == [k \in 1..Len(glyphids) |-> PositionDelta(0, 0, 0)]

\* gpos.py:181-187  GposLookup.adjust, the subtable loop from subtable s on
RECURSIVE GposLookupAdjust(_, _, _, _, _)
GposLookupAdjust(subtables, s, glyphids, advances, deltas) ==
    IF s > Len(subtables) THEN deltas
    ELSE GposLookupAdjust(subtables, s + 1, glyphids, advances,
            merge_deltas(deltas, SubtableAdjust(subtables[s], glyphids, advances)))

\* gpos.py:108-110  `if feat in PERM_FEATURES or features.get(feat, False)`
GposFeatureActive(features, feat) ==
    feat \in GposPermFeatures \/ FeatureGet(features, feat)

\* gpos.py:109-113  the loop over a feature's tables, from table t on
RECURSIVE GposTablesLoop(_, _, _, _, _)
GposTablesLoop(tables, t, glyphids, advances, delta) ==
    IF t > Len(tables) THEN delta
    ELSE GposTablesLoop(tables, t + 1, glyphids, advances,
            merge_deltas(delta, GposLookupAdjust(tables[t], 1, glyphids, advances,
                                                 ZeroDeltas(glyphids))))

\* gpos.py:106-113  the loop over the feature table, from feature f on
RECURSIVE GposFeatLoop(_, _, _, _, _, _)
GposFeatLoop(feattable, features, f, glyphids, advances, delta) ==
    IF f > Len(feattable) THEN delta
    ELSE GposFeatLoop(feattable, features, f + 1, glyphids, advances,
            IF GposFeatureActive(features, feattable[f].tag)
            THEN GposTablesLoop(feattable[f].lookups, 1, glyphids, advances, delta)
            ELSE delta)

\* gpos.py:102-113
GposDeltas(feattable, features, glyphids) ==
    GposFeatLoop(feattable, features, 1, glyphids, Advances(glyphids), ZeroDeltas(glyphids))

\* gpos.py:115-120  x after the first k glyphs
RECURSIVE GposPenX(_, _, _)
GposPenX(delta, glyphids, k) ==
    IF k = 0 THEN 0
    ELSE GposPenX(delta, glyphids, k - 1) + delta[k].dx + FontAdvance(glyphids[k]) + delta[k].dadvance

GposXYOf(delta, glyphids) ==
    [k \in 1..Min(Len(delta), Len(glyphids)) |->
        <<GposPenX(delta, glyphids, k - 1) + delta[k].dx, delta[k].dy>>]

GposInit ==
    /\ gposFeattable \in Feattables(GposFeatureFamily)
    /\ gposFeatures \in FeatureDicts({"kern", "dist", "mark"})
    /\ gposGids \in SeqsUpTo({5, 6, 7}, MaxGposGids)
    /\ gposDelta = <<>>
    /\ gposXY = <<>>
    /\ gposState = "ready"
    /\ OthersIdle("Gpos")

\* gpos.py:100-120  Gpos.position(glyphs, features)
GposPosition ==
    /\ gposState = "ready"
    /\ gposDelta' = GposDeltas(gposFeattable, gposFeatures, gposGids)
    /\ gposXY' = GposXYOf(gposDelta', gposGids)
    /\ gposState' = "returned"
    /\ UNCHANGED <<gposFeattable, gposFeatures, gposGids>>
    /\ OthersUnchanged("Gpos")

GposSpec == GposInit /\ [][GposPosition]_vars

\* The (feature, lookup, subtable) triples of the active features.
C8_ActiveSubtables(feattable, features) ==
    {t \in (1..Len(feattable)) \X (1..2) \X (1..2) :
        /\ GposFeatureActive(features, feattable[t[1]].tag)
        /\ t[2] <= Len(feattable[t[1]].lookups)
        /\ t[3] <= Len(feattable[t[1]].lookups[t[2]])}

\* The contribution of one subtable to glyph k, from the original glyph ids
\* and advances.
C8_Contribution(feattable, t, glyphids, k) ==
    SubtableAdjust(feattable[t[1]].lookups[t[2]][t[3]], glyphids, Advances(glyphids))[k]

RECURSIVE C8_Sum(_, _, _, _, _)
C8_Sum(feattable, T, glyphids, k, field) ==
    IF T = {} THEN 0
    ELSE LET t == CHOOSE x \in T : TRUE
             c == C8_Contribution(feattable, t, glyphids, k)
         IN (IF field = "dx" THEN c.dx ELSE IF field = "dy" THEN c.dy ELSE c.dadvance)
            + C8_Sum(feattable, T \ {t}, glyphids, k, field)

\* seq[::-1]
Reversed(seq) == [k \in 1..Len(seq) |-> seq[Len(seq) + 1 - k]]

C8_Orderings(feattable) ==
    {[k \in 1..Len(feattable) |-> feattable[p[k]]] :
        p \in {q \in [1..Len(feattable) -> 1..Len(feattable)] :
                 \A a, b \in 1..Len(feattable) : a # b => q[a] # q[b]}}
    \cup {[k \in 1..Len(feattable) |->
             Feature(feattable[k].tag, Reversed(feattable[k].lookups))]}

\* C8: Gpos.position returns one entry per glyph; each glyph's delta is the
\* component-wise sum of the contributions of every subtable of every lookup
\* of every active feature, each computed from the original glyph ids and
\* advances; so no reordering of the features or lookups changes the result.
C8_PositionIsSum ==
    gposState = "returned" =>
        /\ Len(gposXY) = Len(gposGids)
        /\ Len(gposDelta) = Len(gposGids)
        /\ \A k \in 1..Len(gposGids) :
              LET T == C8_ActiveSubtables(gposFeattable, gposFeatures)
              IN gposDelta[k] = PositionDelta(C8_Sum(gposFeattable, T, gposGids, k, "dx"),
                                              C8_Sum(gposFeattable, T, gposGids, k, "dy"),
                                              C8_Sum(gposFeattable, T, gposGids, k, "dadvance"))
        /\ \A ft \in C8_Orderings(gposFeattable) :
              LET d == GposDeltas(ft, gposFeatures, gposGids)
              IN d = gposDelta /\ GposXYOf(d, gposGids) = gposXY

\* Two active features and a permanent one all contribute to the glyphs of <<6, 5, 7>>.
C8_Witness ==
    /\ gposState = "returned"
    /\ gposGids = <<6, 5, 7>>
    /\ Len(gposFeattable) = 3
    /\ gposFeattable[1].tag = "dist"
    /\ FeatureGet(gposFeatures, "kern") /\ FeatureGet(gposFeatures, "dist")
    /\ Cardinality(C8_ActiveSubtables(gposFeattable, gposFeatures)) = 5
    /\ gposDelta[2] # PositionDelta(0, 0, 0)
    /\ gposDelta[3].dx # 0
    /\ Len(gposXY) = 3

(***************************************************************************)
(* Python list slices, as the GSUB subtables use them                      *)
(***************************************************************************)

\* A slice bound n against a list of length len: a negative bound counts
\* from the end, and the result is clipped to 0..len.
PyIdx(n, len) == IF n < 0 THEN Max(n + len, 0) ELSE Min(n, len)

\* list[a:b]
PySlice(list, a, b) ==
    LET lo == PyIdx(a, Len(list))
        hi == PyIdx(b, Len(list))
    IN IF lo >= hi THEN <<>> ELSE SubSeq(list, lo + 1, hi)

\* list[a:b] = val
PySliceAssign(list, a, b, val) ==
    LET lo == PyIdx(a, Len(list))
        hi == Max(lo, PyIdx(b, Len(list)))
    IN SubSeq(list, 1, lo) \o val \o SubSeq(list, hi + 1, Len(list))

(***************************************************************************)
(* GSUB (gsub.py): ligature substitution                                   *)
(***************************************************************************)

\* Bound: length of the glyph sequence handed to LookupLigatureSub.sub.
MaxLigGids == 4

\* One entry of a ligature set: ligs[tuple(compglyphs)] = ligglyph, where
\* compglyphs are the components after the first (gsub.py:169-176).
Ligature(compglyphs, ligglyph) == [compglyphs |-> compglyphs, ligglyph |-> ligglyph]

\* A ligature set is a dict: its entries in insertion order, keys distinct.
LookupLigatureSub(covtable, ligsets) ==
    [type |-> "ligature", covtable |-> covtable, ligsets |-> ligsets]

\* The subtable of the specification's example: coverage {10}, set {[20] -> 99}.
LigExample == LookupLigatureSub(Cov1(<<10>>), << <<Ligature(<<20>>, 99)>> >>)

LigSubtables ==
    { LigExample,
      LookupLigatureSub(Cov1(<<10>>),
          << <<Ligature(<<20>>, 98), Ligature(<<20, 30>>, 99)>> >>),
      LookupLigatureSub(Cov1(<<10, 20>>),
          << <<Ligature(<<20, 30>>, 99), Ligature(<<21>>, 97)>>,
             <<Ligature(<<>>, 96)>> >>),
      LookupLigatureSub(Cov2(<<CovRange(20, 21, 0)>>),
          << <<Ligature(<<10, 10, 10>>, 95)>>, <<Ligature(<<30>>, 94), Ligature(<<21>>, 93)>> >>) }

\* Mutant of LigConsumed: the first glyph is not counted.
LigConsumedNoFirst(ls) == Len(ls)

\* gsub.py:190  `i += len(ls)+1`
LigConsumed(ls) == Len(ls) + 1

\* gsub.py:188  `glyphids[i+1:i+1+len(ls)] == list(ls)`
LigMatches(ls, glyphids, i) == PySlice(glyphids, i + 1, i + 1 + Len(ls)) = ls

\* gsub.py:183-197  one iteration of the while loop at i < len(glyphids):
\* the glyph appended to newgids and the new i.
LigatureStep(sub, glyphids, i) ==
    LET gid == glyphids[i + 1]
        covidx == CovIdx(sub.covtable, gid)
    IN IF covidx # NoIdx
       THEN LET ligset == sub.ligsets[covidx + 1]
                hits == {e \in 1..Len(ligset) : LigMatches(ligset[e].compglyphs, glyphids, i)}
            IN IF hits # {}
               THEN LET first == ligset[CHOOSE e \in hits : \A d \in hits : e <= d]
                    IN [glyph |-> first.ligglyph, i |-> i + LigConsumed(first.compglyphs)]
               ELSE [glyph |-> gid, i |-> i + 1]
       ELSE [glyph |-> gid, i |-> i + 1]

\* gsub.py:180-200  LookupLigatureSub.sub, from i on
RECURSIVE LigatureSub(_, _, _, _)
LigatureSub(sub, glyphids, i, newgids) ==
    IF i >= Len(glyphids) THEN newgids
    ELSE LET step == LigatureStep(sub, glyphids, i)
         IN LigatureSub(sub, glyphids, step.i, Append(newgids, step.glyph))

LigInit ==
    /\ ligSub \in LigSubtables
    /\ ligGids \in SeqsUpTo({10, 20, 21, 30}, MaxLigGids)
    /\ ligI = 0
    /\ ligNew = <<>>
    /\ ligState = "scanning"
    /\ OthersIdle("Lig")

\* gsub.py:184-197  one pass of the body of `while i < len(glyphids)`
LigScan ==
    /\ ligState = "scanning"
    /\ ligI < Len(ligGids)
    /\ LET step == LigatureStep(ligSub, ligGids, ligI)
       IN /\ ligNew' = Append(ligNew, step.glyph)
          /\ ligI' = step.i
    /\ UNCHANGED <<ligSub, ligGids, ligState>>
    /\ OthersUnchanged("Lig")

\* gsub.py:183, 198  the loop ends, `return newgids`
LigReturn ==
    /\ ligState = "scanning"
    /\ ligI >= Len(ligGids)
    /\ ligState' = "returned"
    /\ UNCHANGED <<ligSub, ligGids, ligI, ligNew>>
    /\ OthersUnchanged("Lig")

LigNext == LigScan \/ LigReturn

LigSpec == LigInit /\ [][LigNext]_vars

\* The entries of the covered glyph's ligature set whose components are the
\* glyphs that follow position i (0-based), all of them present.
C1_Entries ==
    IF ligI < Len(ligGids) /\ CovIdx(ligSub.covtable, ligGids[ligI + 1]) # NoIdx
    THEN LET ligset == ligSub.ligsets[CovIdx(ligSub.covtable, ligGids[ligI + 1]) + 1]
         IN {e \in 1..Len(ligset) :
                /\ ligI + 1 + Len(ligset[e].compglyphs) <= Len(ligGids)
                /\ \A k \in 1..Len(ligset[e].compglyphs) :
                      ligGids[ligI + 1 + k] = ligset[e].compglyphs[k]}
    ELSE {}

C1_Step ==
    (ligState = "scanning" /\ ligI < Len(ligGids)) =>
        IF C1_Entries # {}
        THEN \E e \in C1_Entries :
                LET lig == ligSub.ligsets[CovIdx(ligSub.covtable, ligGids[ligI + 1]) + 1][e]
                IN /\ ligNew' = Append(ligNew, lig.ligglyph)
                   /\ ligI' = ligI + 1 + Len(lig.compglyphs)
        ELSE /\ ligNew' = Append(ligNew, ligGids[ligI + 1])
             /\ ligI' = ligI + 1

C1_Returned ==
    ligState = "returned" =>
        /\ Len(ligNew) <= Len(ligGids)
        /\ (ligSub = LigExample /\ ligGids = <<10, 20, 30>>) => ligNew = <<99, 30>>
        /\ (ligSub = LigExample /\ ligGids = <<10, 21, 30>>) => ligNew = ligGids

\* C1: ligature substitution scans left to right: at a covered glyph whose
\* following glyphs equal the components of an entry of its ligature set,
\* the glyph and the components become the ligature glyph and the scan
\* resumes after them; otherwise the glyph is copied and the scan advances
\* by one.  Coverage {10}, set {[20] -> 99}: [10,20,30] gives [99,30],
\* [10,21,30] is unchanged; the output is never longer than the input.
C1_LigatureScan == [][C1_Step /\ C1_Returned']_vars

C1_Witness ==
    /\ ligState = "returned"
    /\ ligSub = LigExample
    /\ ligGids = <<10, 20, 30>>
    /\ ligNew = <<99, 30>>
    /\ ligNew = LigatureSub(ligSub, ligGids, 0, <<>>)

(***************************************************************************)
(* GSUB (gsub.py): single and multiple substitution, lookups, Gsub.sub     *)
(***************************************************************************)

LookupSingleSub1(covtable, deltagid) ==
    [type |-> "single1", covtable |-> covtable, deltagid |-> deltagid]
LookupSingleSub2(covtable, subglyphids) ==
    [type |-> "single2", covtable |-> covtable, subglyphids |-> subglyphids]
LookupMultipleSub(covtable, subglyphids) ==
    [type |-> "multiple", covtable |-> covtable, subglyphids |-> subglyphids]

\* gsub.py:49-55  LookupSingleSub1.sub
SingleSub1(sub, glyphids) ==
    [k \in 1..Len(glyphids) |->
        IF CovIdx(sub.covtable, glyphids[k]) # NoIdx
        THEN glyphids[k] + sub.deltagid
        ELSE glyphids[k]]

\* gsub.py:71-77  LookupSingleSub2.sub
SingleSub2(sub, glyphids) ==
    [k \in 1..Len(glyphids) |->
        IF CovIdx(sub.covtable, glyphids[k]) # NoIdx
        THEN sub.subglyphids[CovIdx(sub.covtable, glyphids[k]) + 1]
        ELSE glyphids[k]]

\* gsub.py:100-109  LookupMultipleSub.sub, from glyph k on
RECURSIVE MultipleSub(_, _, _, _)
MultipleSub(sub, glyphids, k, newglyphids) ==
    IF k > Len(glyphids) THEN newglyphids
    ELSE LET covidx == CovIdx(sub.covtable, glyphids[k])
         IN MultipleSub(sub, glyphids, k + 1,
                IF covidx # NoIdx THEN newglyphids \o sub.subglyphids[covidx + 1]
                ELSE Append(newglyphids, glyphids[k]))

\* subtable.sub(glyphids, lookups, name) of a subtable without nested lookups
PlainSub(sub, glyphids) ==
    IF sub.type = "single1" THEN SingleSub1(sub, glyphids)
    ELSE IF sub.type = "single2" THEN SingleSub2(sub, glyphids)
    ELSE IF sub.type = "multiple" THEN MultipleSub(sub, glyphids, 1, <<>>)
    ELSE LigatureSub(sub, glyphids, 0, <<>>)

\* gsub.py:509-514  GSUBLookup.sub, from subtable st on; a lookup is the
\* list of its subtables
RECURSIVE PlainLookupSub(_, _, _)
PlainLookupSub(subtables, st, glyphids) ==
    IF st > Len(subtables) THEN glyphids
    ELSE PlainLookupSub(subtables, st + 1, PlainSub(subtables[st], glyphids))

\* Bound: number of glyphs handed to Gsub.sub.
MaxGsubGids == 3

\* gsub.py:20
GsubPermFeatures == {"ccmp", "locl", "rlig", "rvrn", "rclt"}

GsubFeatureFamily ==
    { Feature("ccmp", << <<LookupSingleSub1(Cov1(<<10, 11, 65535>>), 1)>> >>),
      Feature("liga", << <<LookupLigatureSub(Cov1(<<11>>), << <<Ligature(<<20>>, 99)>> >>)>> >>),
      Feature("calt", << <<LookupSingleSub2(Cov1(<<20>>), <<21>>)>>,
                             <<LookupSingleSub1(Cov2(<<CovRange(21, 22, 0)>>), 9),
                               LookupMultipleSub(Cov1(<<12>>), << <<10, 20>> >>)>> >>) }

\* gsub.py:601-608  apply_feature, from table t on
RECURSIVE apply_feature(_, _, _)
apply_feature(tables, t, glyphids) ==
    IF t > Len(tables) THEN glyphids
    ELSE apply_feature(tables, t + 1, PlainLookupSub(tables[t], 1, glyphids))

\* gsub.py:611-613  the loop over the permanent features, from feature f on.
\* The run is the pair of the glyph ids and the apply_feature calls so far.
RECURSIVE GsubPermLoop(_, _, _)
GsubPermLoop(feattable, f, run) ==
    IF f > Len(feattable) THEN run
    ELSE GsubPermLoop(feattable, f + 1,
            IF feattable[f].tag \in GsubPermFeatures
            THEN [glyphids |-> apply_feature(feattable[f].lookups, 1, run.glyphids),
                  applied |-> Append(run.applied, feattable[f].tag)]
            ELSE run)

\* gsub.py:616-618  the loop over the features flagged in the argument
RECURSIVE GsubFlagLoop(_, _, _, _)
GsubFlagLoop(feattable, features, f, run) ==
    IF f > Len(feattable) THEN run
    ELSE GsubFlagLoop(feattable, features, f + 1,
            IF FeatureGet(features, feattable[f].tag)
            THEN [glyphids |-> apply_feature(feattable[f].lookups, 1, run.glyphids),
                  applied |-> Append(run.applied, feattable[f].tag)]
            ELSE run)

\* gsub.py:595-620
GsubSubRun(feattable, features, glyphids) ==
    GsubFlagLoop(feattable, features, 1,
        GsubPermLoop(feattable, 1, [glyphids |-> glyphids, applied |-> <<>>]))

GsubInit ==
    /\ gsubFeattable \in Feattables(GsubFeatureFamily)
    /\ gsubFeatures \in FeatureDicts({"ccmp", "liga", "calt"})
    /\ gsubGids \in SeqsUpTo({10, 11, 20, 65535}, MaxGsubGids)
    /\ gsubApplied = <<>>
    /\ gsubResult = <<>>
    /\ gsubState = "ready"
    /\ OthersIdle("Gsub")

\* gsub.py:595-620  Gsub.sub(glyphids, features)
GsubSub ==
    /\ gsubState = "ready"
    /\ LET run == GsubSubRun(gsubFeattable, gsubFeatures, gsubGids)
       IN /\ gsubResult' = run.glyphids
          /\ gsubApplied' = run.applied
    /\ gsubState' = "returned"
    /\ UNCHANGED <<gsubFeattable, gsubFeatures, gsubGids>>
    /\ OthersUnchanged("Gsub")

GsubSpec == GsubInit /\ [][GsubSub]_vars

\* The features the claim has applied, in its order: the permanent ones of
\* the font, then the optional ones whose flag is true.
C4_Expected ==
    LET IsPerm(ft) == ft.tag \in GsubPermFeatures
        IsOn(ft) == ft.tag \notin GsubPermFeatures /\ FeatureGet(gsubFeatures, ft.tag)
    IN SelectSeq(gsubFeattable, IsPerm) \o SelectSeq(gsubFeattable, IsOn)

RECURSIVE C4_Fold(_, _, _)
C4_Fold(feats, f, glyphids) ==
    IF f > Len(feats) THEN glyphids
    ELSE C4_Fold(feats, f + 1, apply_feature(feats[f].lookups, 1, glyphids))

\* C4: Gsub.sub applies first every permanent feature of the font, in font
\* order, then every optional feature whose flag is true, in font order;
\* each of them exactly once, its lookups in listed order on the output of
\* the previous one; an optional feature whose flag is false or absent is
\* never applied.
C4_FeatureOrder ==
    gsubState = "returned" =>
        /\ gsubApplied = [k \in 1..Len(C4_Expected) |-> C4_Expected[k].tag]
        /\ gsubResult = C4_Fold(C4_Expected, 1, gsubGids)

(***************************************************************************)
(* GSUB (gsub.py): chained-context substitution                            *)
(*                                                                         *)
(* GSUBLookup.sub of lookup 0, as apply_feature calls it, on a lookup list *)
(* whose subtables may be chained-context subtables.  A chained-context    *)
(* subtable calls lookups back through its sequence-lookup records, so the *)
(* calls in progress form a stack; a step is one subtable call without     *)
(* nested lookups, one test of a loop condition, one test of a rule, or    *)
(* one call or return of a nested lookup.                                  *)
(***************************************************************************)

\* Bound: number of glyphs handed to the lookup.
MaxChainGids == 4

\* Bound: number of GSUBLookup.sub calls in progress at which the
\* interpreter's recursion limit is reached (RecursionError).
MaxDepth == 3

\* gsub.py:15-16
ChainedSeqRule(backtrack, input, lookahead, sequence) ==
    [backtrack |-> backtrack, input |-> input, lookahead |-> lookahead, sequence |-> sequence]
SequenceLookupRecord(sequenceindex, lookupindex) ==
    [sequenceindex |-> sequenceindex, lookupindex |-> lookupindex]

LookupChainedSub1(covtable, rules) ==
    [type |-> "chained1", covtable |-> covtable, rules |-> rules]
LookupChainedSub2(covtable, backtrackClass, inputClass, lookaheadClass, rules) ==
    [type |-> "chained2", covtable |-> covtable, backtrackClass |-> backtrackClass,
     inputClass |-> inputClass, lookaheadClass |-> lookaheadClass, rules |-> rules]
LookupChainedSub3(backCoverage, inptCoverage, lookaheadCoverage, seqlookups) ==
    [type |-> "chained3", backCoverage |-> backCoverage, inptCoverage |-> inptCoverage,
     lookaheadCoverage |-> lookaheadCoverage, seqlookups |-> seqlookups]

IsChained(sub) == sub.type \in {"chained1", "chained2", "chained3"}

\* Nested lookups of the model: glyph + 10 for 1..3, 1 -> 1, and the
\* ligature 1 2 -> 9.
IncLookup == <<LookupSingleSub1(Cov2(<<CovRange(1, 3, 0)>>), 10)>>
SameLookup == <<LookupSingleSub2(Cov1(<<1>>), <<1>>)>>
LigLookup == <<LookupLigatureSub(Cov1(<<1>>), << <<Ligature(<<2>>, 9)>> >>)>>

\* Glyph classes of the format-2 subtable: input 1 -> 1, 2 -> 2; lookahead
\* 2 -> 2, 3 -> 1; backtrack 3 -> 2.
Chain2Example ==
    LookupChainedSub2(Cov1(<<1>>),
        ClassDef2(<<ClassRange(3, 3, 2)>>),
        ClassDef2(<<ClassRange(1, 1, 1), ClassRange(2, 2, 2)>>),
        ClassDef1(2, <<2, 1>>),
        << <<>>,
           <<ChainedSeqRule(<<>>, <<>>, <<2>>, <<SequenceLookupRecord(0, 1)>>),
             ChainedSeqRule(<<2>>, <<2>>, <<>>, <<SequenceLookupRecord(0, 1)>>)>> >>)

\* The lookup lists (Gsub.lookups) of the model; lookup 0 is the one called.
ChainLookupLists ==
    { \* format 1: backtrack 1, input 3, lookahead 2
      << <<LookupChainedSub1(Cov1(<<2>>),
            << <<ChainedSeqRule(<<1>>, <<3>>, <<2>>, <<SequenceLookupRecord(0, 1)>>)>> >>)>>,
         IncLookup >>,
      \* format 1: two rule sets, several rules, a backtrack of two glyphs
      << <<LookupChainedSub1(Cov1(<<1, 2>>),
            << <<ChainedSeqRule(<<>>, <<2>>, <<3>>, <<SequenceLookupRecord(0, 1)>>),
                 ChainedSeqRule(<<>>, <<>>, <<1>>, <<SequenceLookupRecord(0, 1)>>)>>,
               <<ChainedSeqRule(<<1, 3>>, <<>>, <<>>, <<SequenceLookupRecord(0, 1)>>)>> >>)>>,
         IncLookup >>,
      \* format 1: the rule set of the covered glyph is empty
      << <<LookupChainedSub1(Cov1(<<1>>), << <<>> >>)>> >>,
      \* format 1: the rule's input sequence is the covered glyph alone
      << <<LookupChainedSub1(Cov1(<<1>>),
            << <<ChainedSeqRule(<<>>, <<>>, <<>>, <<SequenceLookupRecord(0, 1)>>)>> >>)>>,
         SameLookup >>,
      \* format 1 with a nested ligature
      << <<LookupChainedSub1(Cov1(<<1>>),
            << <<ChainedSeqRule(<<3>>, <<2>>, <<>>, <<SequenceLookupRecord(0, 1)>>)>> >>)>>,
         LigLookup >>,
      \* format 2
      << <<Chain2Example>>, IncLookup >>,
      \* format 3: one backtrack, two input, one lookahead coverage
      << <<LookupChainedSub3(<<Cov1(<<1>>)>>, <<Cov1(<<2>>), Cov1(<<3>>)>>, <<Cov1(<<1, 2>>)>>,
            <<SequenceLookupRecord(1, 1)>>)>>,
         IncLookup >>,
      \* format 3 without input coverages
      << <<LookupChainedSub3(<<>>, <<>>, <<Cov1(<<2>>)>>, <<SequenceLookupRecord(0, 1)>>)>>,
         SameLookup >>,
      \* a sequence-lookup record that refers to its own lookup
      << <<LookupChainedSub1(Cov1(<<1>>),
            << <<ChainedSeqRule(<<>>, <<>>, <<>>, <<SequenceLookupRecord(0, 0)>>)>> >>)>> >>,
      \* a cycle of two lookups, the second with a plain subtable first
      << <<LookupChainedSub3(<<>>, <<Cov1(<<2>>)>>, <<>>, <<SequenceLookupRecord(0, 1)>>)>>,
         <<LookupSingleSub2(Cov1(<<3>>), <<2>>),
           LookupChainedSub3(<<>>, <<Cov1(<<2>>)>>, <<>>, <<SequenceLookupRecord(0, 0)>>)>> >> }

\* One GSUBLookup.sub call in progress: the lookup (index into lookups),
\* the subtable its loop is at (st-th), its glyphids, and, inside a chained
\* subtable's sub, the place in the code (pc), i, the rule set and the rule
\* of the for loop, and the sequence-lookup record being applied.  For the
\* statements about the scan, the frame remembers the value i had when the
\* rule loop was entered (pos) and the length of the input span of the
\* first rule that matched in this round of the loop (span, 0 for none).
ChainFrame(lookup, glyphids) ==
    [lookup |-> lookup, st |-> 1, glyphids |-> glyphids, pc |-> "subtable",
     i |-> 0, ruleset |-> 0, rule |-> 0, seq |-> 0, pos |-> 0, span |-> 0]

ChainTop == chStack[Len(chStack)]
ChainSetTop(frame) == [chStack EXCEPT ![Len(chStack)] = frame]
ChainSubtableOf(frame) == chLookups[frame.lookup + 1][frame.st]

ClassesOf(classdef, list) == [k \in 1..Len(list) |-> GetClass(classdef, list[k])]

\* Mutant of ChainLookaheadOk: the lookahead is not compared.
ChainLookaheadAny(lookahead, required) == TRUE

\* gsub.py:349, 427  `if lookahead != rule.lookahead: continue`
ChainLookaheadOk(lookahead, required) == lookahead = required

\* gsub.py:415-429  does the rule match at i (format 1)
Chain1RuleMatches(rule, glyphids, i) ==
    /\ PySlice(glyphids, i + 1, i + 1 + Len(rule.input)) = rule.input
    /\ Reversed(PySlice(glyphids, i - Len(rule.backtrack), i)) = rule.backtrack
    /\ ChainLookaheadOk(PySlice(glyphids, i + 1 + Len(rule.input),
                                i + 1 + Len(rule.input) + Len(rule.lookahead)),
                        rule.lookahead)

\* gsub.py:335-350  does the rule match at i (format 2)
Chain2RuleMatches(sub, rule, glyphids, i) ==
    /\ ClassesOf(sub.inputClass, PySlice(glyphids, i + 1, i + 1 + Len(rule.input))) = rule.input
    /\ Reversed(ClassesOf(sub.backtrackClass, PySlice(glyphids, i - Len(rule.backtrack), i)))
          = rule.backtrack
    /\ ChainLookaheadOk(ClassesOf(sub.lookaheadClass,
                            PySlice(glyphids, i + 1 + Len(rule.input),
                                    i + 1 + Len(rule.input) + Len(rule.lookahead))),
                        rule.lookahead)

\* gsub.py:246-257  do the coverages match at i (format 3)
Chain3Matches(sub, glyphids, i) ==
    /\ \A k \in 0..(Len(sub.inptCoverage) - 1) :
          CovIdx(sub.inptCoverage[k + 1], glyphids[i + k + 1]) # NoIdx
    /\ \A k \in 0..(Len(sub.backCoverage) - 1) :
          CovIdx(sub.backCoverage[k + 1], glyphids[i - k - 1 + 1]) # NoIdx
    /\ \A k \in 0..(Len(sub.lookaheadCoverage) - 1) :
          CovIdx(sub.lookaheadCoverage[k + 1],
                 glyphids[i + Len(sub.inptCoverage) + k + 1]) # NoIdx

\* The rule the frame's for loop is at, the matched rule's sequence-lookup
\* records, and the number of glyphs the slices add to i + 1.
ChainRuleOf(frame) == ChainSubtableOf(frame).rules[frame.ruleset + 1][frame.rule]
ChainSeqsOf(frame) ==
    IF ChainSubtableOf(frame).type = "chained3" THEN ChainSubtableOf(frame).seqlookups
    ELSE ChainRuleOf(frame).sequence
ChainInputLen(frame) ==
    IF ChainSubtableOf(frame).type = "chained3" THEN Len(ChainSubtableOf(frame).inptCoverage)
    ELSE Len(ChainRuleOf(frame).input)

ChainMatchRecord(frame) ==
    [lookup |-> frame.lookup, st |-> frame.st, ruleset |-> frame.ruleset,
     rule |-> frame.rule, i |-> frame.i, glyphids |-> frame.glyphids]

ChainInit ==
    /\ chLookups \in ChainLookupLists
    /\ chInput \in SeqsUpTo({1, 2, 3}, MaxChainGids)
    /\ chStack = <<ChainFrame(0, chInput)>>
    /\ chFired = <<>>
    /\ chResult = <<>>
    /\ chState = "running"
    /\ OthersIdle("Chain")

\* gsub.py:512-513  `glyphids = subtable.sub(glyphids, lookups, name)`: the
\* whole call for a subtable without nested lookups, the entry into the
\* scan loop for a chained-context subtable.
ChainSubtable ==
    /\ chState = "running"
    /\ ChainTop.pc = "subtable"
    /\ ChainTop.st <= Len(chLookups[ChainTop.lookup + 1])
    /\ LET sub == ChainSubtableOf(ChainTop)
       IN chStack' = ChainSetTop(
            IF IsChained(sub)
            THEN [ChainTop EXCEPT !.pc = "while",
                                  !.i = IF sub.type = "chained3" THEN Len(sub.backCoverage) ELSE 0]
            ELSE [ChainTop EXCEPT !.glyphids = PlainSub(sub, ChainTop.glyphids),
                                  !.st = ChainTop.st + 1])
    /\ UNCHANGED <<chLookups, chInput, chFired, chResult, chState>>
    /\ OthersUnchanged("Chain")

\* gsub.py:514  `return glyphids` of GSUBLookup.sub: to apply_feature for
\* the outermost call, else into the slice assignment of the caller
\* (gsub.py:263-264, 352-353, 433-434), which goes on to its next record.
ChainLookupReturn ==
    /\ chState = "running"
    /\ ChainTop.pc = "subtable"
    /\ ChainTop.st > Len(chLookups[ChainTop.lookup + 1])
    /\ IF Len(chStack) = 1
       THEN /\ chResult' = ChainTop.glyphids
            /\ chState' = "returned"
            /\ chStack' = <<>>
       ELSE LET caller == chStack[Len(chStack) - 1]
                rec == ChainSeqsOf(caller)[caller.seq]
                assigned == PySliceAssign(caller.glyphids,
                                          caller.i + rec.sequenceindex,
                                          caller.i + 1 + ChainInputLen(caller),
                                          ChainTop.glyphids)
            IN /\ chStack' = Append(SubSeq(chStack, 1, Len(chStack) - 2),
                                    [caller EXCEPT !.glyphids = assigned, !.seq = caller.seq + 1])
               /\ UNCHANGED <<chResult, chState>>
    /\ UNCHANGED <<chLookups, chInput, chFired>>
    /\ OthersUnchanged("Chain")

\* The chained subtable's sub returns glyphids to GSUBLookup.sub.
ChainSubReturn(frame) == [frame EXCEPT !.pc = "subtable", !.st = frame.st + 1]

\* gsub.py:244-260 (format 3), 327-332 (format 2), 408-412 (format 1): the
\* test of the while condition and the body up to the rule loop; for
\* format 3 up to the match.
ChainWhile ==
    /\ chState = "running"
    /\ ChainTop.pc = "while"
    /\ LET top == ChainTop
           sub == ChainSubtableOf(top)
           i == top.i
       IN IF sub.type = "chained3"
          THEN IF i < Len(top.glyphids) - Len(sub.lookaheadCoverage) - Len(sub.inptCoverage) + 1
               THEN IF Chain3Matches(sub, top.glyphids, i)
                    THEN /\ chStack' = ChainSetTop([top EXCEPT !.pc = "seq", !.seq = 1])
                         /\ chFired' = <<ChainMatchRecord(top)>>
                         /\ UNCHANGED chState
                    ELSE /\ chStack' = ChainSetTop([top EXCEPT !.i = i + 1])
                         /\ UNCHANGED <<chFired, chState>>
               ELSE /\ chStack' = ChainSetTop(ChainSubReturn(top))
                    /\ UNCHANGED <<chFired, chState>>
          ELSE IF i < Len(top.glyphids)
               THEN LET gid == top.glyphids[i + 1]
                        covidx == CovIdx(sub.covtable, gid)
                        ruleset == IF sub.type = "chained2" THEN GetClass(sub.inputClass, gid)
                                   ELSE covidx
                    IN IF covidx = NoIdx
                       THEN /\ chStack' = ChainSetTop([top EXCEPT !.i = i + 1])
                            /\ UNCHANGED <<chFired, chState>>
                       ELSE IF ruleset >= Len(sub.rules)
                       THEN /\ chState' = "error"
                            /\ UNCHANGED <<chStack, chFired>>
                       ELSE /\ chStack' = ChainSetTop([top EXCEPT !.pc = "rule",
                                                                  !.ruleset = ruleset, !.rule = 1,
                                                                  !.pos = i, !.span = 0])
                            /\ UNCHANGED <<chFired, chState>>
               ELSE /\ chStack' = ChainSetTop(ChainSubReturn(top))
                    /\ UNCHANGED <<chFired, chState>>
    /\ UNCHANGED <<chLookups, chInput, chResult>>
    /\ OthersUnchanged("Chain")

\* gsub.py:334-350 (format 2), 414-429 (format 1): `for rule in ruleset`,
\* one rule tested at i, or the end of the loop.
ChainRule ==
    /\ chState = "running"
    /\ ChainTop.pc = "rule"
    /\ LET top == ChainTop
           sub == ChainSubtableOf(top)
           ruleset == sub.rules[top.ruleset + 1]
       IN IF top.rule > Len(ruleset)
          THEN /\ chStack' = ChainSetTop(
                    [top EXCEPT !.pc = "while",
                                !.i = IF sub.type = "chained2" THEN top.i + 1 ELSE top.i])
               /\ UNCHANGED chFired
          ELSE IF IF sub.type = "chained2"
                  THEN Chain2RuleMatches(sub, ruleset[top.rule], top.glyphids, top.i)
                  ELSE Chain1RuleMatches(ruleset[top.rule], top.glyphids, top.i)
          THEN /\ chStack' = ChainSetTop(
                    [top EXCEPT !.pc = "seq", !.seq = 1,
                                !.span = IF top.span = 0
                                         THEN 1 + Len(ruleset[top.rule].input)
                                         ELSE top.span])
               /\ chFired' = <<ChainMatchRecord(top)>>
          ELSE /\ chStack' = ChainSetTop(
                    [top EXCEPT !.rule = top.rule + 1,
                                !.i = IF sub.type = "chained1" THEN top.i + 1 ELSE top.i])
               /\ UNCHANGED chFired
    /\ UNCHANGED <<chLookups, chInput, chResult, chState>>
    /\ OthersUnchanged("Chain")

\* gsub.py:262-266 (format 3), 352-354 (format 2), 432-435 (format 1):
\* `for seqlookup in ...`: the call of lookups[lookupindex].sub on the slice
\* glyphids[i:i+1+n], or the end of the loop.
ChainSeq ==
    /\ chState = "running"
    /\ ChainTop.pc = "seq"
    /\ LET top == ChainTop
           sub == ChainSubtableOf(top)
           seqs == ChainSeqsOf(top)
       IN IF top.seq > Len(seqs)
          THEN /\ chStack' = ChainSetTop(
                    IF sub.type = "chained3"
                    THEN [top EXCEPT !.pc = "while", !.i = top.i + Len(sub.inptCoverage)]
                    ELSE IF sub.type = "chained2"
                    THEN [top EXCEPT !.pc = "rule", !.rule = top.rule + 1]
                    ELSE [top EXCEPT !.pc = "rule", !.rule = top.rule + 1,
                                     !.i = top.i + Len(ChainRuleOf(top).input)])
               /\ UNCHANGED chState
          ELSE IF \/ seqs[top.seq].lookupindex >= Len(chLookups)
                  \/ Len(chStack) >= MaxDepth
          THEN /\ chState' = "error"
               /\ UNCHANGED chStack
          ELSE /\ chStack' = Append(chStack,
                    ChainFrame(seqs[top.seq].lookupindex,
                               PySlice(top.glyphids, top.i, top.i + 1 + ChainInputLen(top))))
               /\ UNCHANGED chState
    /\ UNCHANGED <<chLookups, chInput, chFired, chResult>>
    /\ OthersUnchanged("Chain")

ChainNext == ChainSubtable \/ ChainLookupReturn \/ ChainWhile \/ ChainRule \/ ChainSeq

ChainSpec == ChainInit /\ [][ChainNext]_vars

\* The interpreter runs the call to its end: a step that can be taken is taken.
ChainFairSpec == ChainSpec /\ WF_vars(ChainNext)

\* The glyph at 0-based position k of a list, <<>> when there is none.
C2_At(list, k) == IF 0 <= k /\ k < Len(list) THEN <<list[k + 1]>> ELSE <<>>

\* The three contexts of the matched rule hold at position m.i of m.glyphids:
\* backtrack entry k against the k-th glyph before i, input entry k against
\* the k-th glyph after i, lookahead entry k against the k-th glyph after
\* the input; by glyph (format 1), class (format 2) or coverage (format 3).
C2_ContextsMatch(m) ==
    LET sub == chLookups[m.lookup + 1][m.st]
        g == m.glyphids
    IN IF sub.type = "chained3"
       THEN /\ m.i >= Len(sub.backCoverage)
            /\ \A k \in 1..Len(sub.backCoverage) :
                  /\ C2_At(g, m.i - k) # <<>>
                  /\ CovIdx(sub.backCoverage[k], C2_At(g, m.i - k)[1]) # NoIdx
            /\ \A k \in 1..Len(sub.inptCoverage) :
                  /\ C2_At(g, m.i + k - 1) # <<>>
                  /\ CovIdx(sub.inptCoverage[k], C2_At(g, m.i + k - 1)[1]) # NoIdx
            /\ \A k \in 1..Len(sub.lookaheadCoverage) :
                  /\ C2_At(g, m.i + Len(sub.inptCoverage) + k - 1) # <<>>
                  /\ CovIdx(sub.lookaheadCoverage[k],
                            C2_At(g, m.i + Len(sub.inptCoverage) + k - 1)[1]) # NoIdx
       ELSE LET rule == sub.rules[m.ruleset + 1][m.rule]
                Same(glyph, required, classdef) ==
                    IF sub.type = "chained1" THEN glyph = required
                    ELSE GetClass(classdef, glyph) = required
            IN /\ m.i >= Len(rule.backtrack)
               /\ \A k \in 1..Len(rule.backtrack) :
                     /\ C2_At(g, m.i - k) # <<>>
                     /\ Same(C2_At(g, m.i - k)[1], rule.backtrack[k],
                             IF sub.type = "chained2" THEN sub.backtrackClass ELSE ClassDefBlank)
               /\ \A k \in 1..Len(rule.input) :
                     /\ C2_At(g, m.i + k) # <<>>
                     /\ Same(C2_At(g, m.i + k)[1], rule.input[k],
                             IF sub.type = "chained2" THEN sub.inputClass ELSE ClassDefBlank)
               /\ \A k \in 1..Len(rule.lookahead) :
                     /\ C2_At(g, m.i + Len(rule.input) + k) # <<>>
                     /\ Same(C2_At(g, m.i + Len(rule.input) + k)[1], rule.lookahead[k],
                             IF sub.type = "chained2" THEN sub.lookaheadClass ELSE ClassDefBlank)

\* C2: a chained-context rule fires at position i only when its backtrack,
\* input and lookahead contexts all match there, so never at a position
\* before the length of its backtrack; while no rule has fired no nested
\* lookup is invoked, and a call in which none fired returns the sequence
\* unchanged (format 2: glyphs 1 3, lookahead class 1 where 2 is required).
C2_ContextGating ==
    /\ chFired # <<>> => C2_ContextsMatch(chFired[1])
    /\ chFired = <<>> => Len(chStack) <= 1
    /\ (chState = "returned" /\ chFired = <<>>
            /\ \A st \in 1..Len(chLookups[1]) : IsChained(chLookups[1][st]))
         => chResult = chInput
    /\ (chState = "returned" /\ chLookups[1] = <<Chain2Example>> /\ chInput = <<1, 3>>)
         => chFired = <<>> /\ chResult = <<1, 3>>

\* A format-2 rule with a lookahead class has fired at position 1 (glyph 1
\* followed by glyph 2 of lookahead class 2) and the call has returned the
\* rewritten sequence.
C2_Witness ==
    /\ chState = "returned"
    /\ chLookups[1] = <<Chain2Example>>
    /\ chInput = <<2, 1, 2>>
    /\ chFired # <<>>
    /\ chFired[1].i = 1 /\ chFired[1].rule = 1
    /\ chResult = <<2, 11, 2>>

\* C5: Gsub.sub terminates for every glyph sequence and every lookup list:
\* the call of the lookup comes to an end, also when a covered glyph's rule
\* set is empty, a matching rule has a single-glyph input, a format-3
\* subtable has no input coverage, or a record refers back to its lookup.
C5_Terminates == <>(chState \in {"returned", "error"})

(***************************************************************************)
(* glyf table: Font.glyph_fromid, read_glyph_glyf and the glyph cache      *)
(*                                                                         *)
(* The font file is a sequence of cells, one 16-bit field each, and every  *)
(* offset counts cells (the code counts bytes).  A glyph record is the     *)
(* numberOfContours cell followed by its body; the four bounding-box       *)
(* fields, which do not reach the operators, are left out.  The body of a  *)
(* simple glyph is one cell per contour, the x coordinate of its single    *)
(* point, and the operators of the glyph are these coordinates.  The body  *)
(* of a compound glyph is one (flags, glyphIndex, e) triple per component, *)
(* with byte arguments and no scale, so that a component's operators are   *)
(* the child's operators moved by e.                                       *)
(***************************************************************************)

\* Nested read_glyph_glyf calls the interpreter has room for (its recursion
\* limit, scaled down).  The decoder has no limit of its own.
MaxGlyfDepth == 4

\* FontReader.readuint16(offset) / readint16(offset): `if offset:` seeks only
\* when offset is neither None (NoIdx) nor 0; then one field is read at the
\* cursor.  Reading at or past the end of the buffer raises struct.error.
ReadCell(cells, cursor, offset) ==
    LET pos == IF offset # NoIdx /\ offset # 0 THEN offset ELSE cursor
    IN  IF pos < Len(cells)
        THEN [ok |-> TRUE, val |-> cells[pos + 1], cursor |-> pos + 1]
        ELSE [ok |-> FALSE, val |-> 0, cursor |-> pos]

\* glyphoffset(font, index), indextolocformat 0: the loca entry of the glyph
\* and the next one, read as unsigned; None (NoIdx) when they are equal.
glyphoffset(font, cursor, index) ==
    LET offset == ReadCell(font.cells, cursor, font.loca + index)
        nextofst == ReadCell(font.cells, offset.cursor, NoIdx)
    IN  [ok |-> offset.ok /\ nextofst.ok,
         offset |-> IF (offset.val % 65536) = (nextofst.val % 65536) THEN NoIdx
                    ELSE (offset.val % 65536) + font.glyf,
         cursor |-> IF offset.ok THEN nextofst.cursor ELSE offset.cursor]

\* read_simpleglyph: the contours are read from the cursor on.  Without a
\* contour max(ends) raises ValueError; a body that runs past the end of
\* the buffer raises struct.error.
read_simpleglyph(cells, cursor, numcontours) ==
    IF numcontours < 1
    THEN [ok |-> FALSE, operators |-> <<>>, cursor |-> cursor]
    ELSE IF cursor + numcontours > Len(cells)
    THEN [ok |-> FALSE, operators |-> <<>>, cursor |-> Len(cells)]
    ELSE [ok |-> TRUE,
          operators |-> SubSeq(cells, cursor + 1, cursor + numcontours),
          cursor |-> cursor + numcontours]

\* read_compoundglyph, `while moreglyphs`: one (flag, subindex, e) triple per
\* round, read one after the other from the cursor on; MORE is 0x0020,
\* ARG_XY is 0x0002 and match is set without ARG_XY.
RECURSIVE read_components(_, _, _, _)
read_components(cells, cursor, glyphidxs, xforms) ==
    LET flag == ReadCell(cells, cursor, NoIdx)
        subindex == ReadCell(cells, cursor + 1, NoIdx)
        e == ReadCell(cells, cursor + 2, NoIdx)
        moreglyphs == ((flag.val % 65536) \div 32) % 2 = 1
        match == ((flag.val % 65536) \div 2) % 2 = 0
        idxs == Append(glyphidxs, subindex.val % 65536)
        xfs == Append(xforms, [e |-> e.val, match |-> match])
    IN  IF ~e.ok
        THEN [ok |-> FALSE, glyphidxs |-> glyphidxs, xforms |-> xforms,
              cursor |-> Max(cursor, Len(cells))]
        ELSE IF moreglyphs
        THEN read_components(cells, cursor + 3, idxs, xfs)
        ELSE [ok |-> TRUE, glyphidxs |-> idxs, xforms |-> xfs, cursor |-> cursor + 3]

\* read_glyph_glyf(glyphid, font) up to the loop over the components: the
\* frame of the call.  kind is "empty" (EmptyGlyph), "simple", "compound"
\* (components still to be read into glyphs) or "error" (an exception).
\* The one-element sets bind the value of a read once.
GlyfFrame(font, cursor, glyphid) ==
    LET frame(kind, operators, glyphidxs, xforms, cur) ==
            [glyphid |-> glyphid, kind |-> kind, operators |-> operators,
             glyphidxs |-> glyphidxs, xforms |-> xforms, glyphs |-> <<>>, cursor |-> cur]
        glyph(offset, numcontours) ==
            IF numcontours.val = -1
            THEN LET comp == read_components(font.cells, numcontours.cursor, <<>>, <<>>)
                 IN  frame(IF comp.ok THEN "compound" ELSE "error", <<>>,
                           comp.glyphidxs, comp.xforms, comp.cursor)
            ELSE LET simple == read_simpleglyph(font.cells, numcontours.cursor,
                                                numcontours.val)
                 IN  frame(IF simple.ok THEN "simple" ELSE "error",
                           simple.operators, <<>>, <<>>, simple.cursor)
        header(offset) ==
            IF ~offset.ok THEN frame("error", <<>>, <<>>, <<>>, offset.cursor)
            ELSE IF offset.offset = NoIdx \/ offset.offset >= font.glyf + font.glyflen
            THEN frame("empty", <<>>, <<>>, <<>>, offset.cursor)
            ELSE LET numcontours == ReadCell(font.cells, offset.offset, NoIdx)
                 IN  IF ~numcontours.ok
                     THEN frame("error", <<>>, <<>>, <<>>, numcontours.cursor)
                     ELSE CHOOSE g \in {glyph(offset, n) : n \in {numcontours}} : TRUE
    IN  CHOOSE g \in {header(o) : o \in {glyphoffset(font, cursor, glyphid)}} : TRUE

\* CompoundGlyph._buildcompound: the operators of each component moved by
\* its transform (a = d = 1, b = c = 0: x + e), in component order.
RECURSIVE buildcompound(_, _, _)
buildcompound(glyphs, xforms, k) ==
    IF k > Len(glyphs) THEN <<>>
    ELSE [j \in 1..Len(glyphs[k]) |-> glyphs[k][j] + xforms[k].e]
         \o buildcompound(glyphs, xforms, k + 1)

\* The font files.  Three glyphs each (numGlyphs of maxp): the first two fonts hold two simple
\* glyphs and a compound glyph of both, with the loca table behind four
\* other cells or at offset 0; in the third font glyph 0 and glyph 1 are
\* components of each other; in the fourth glyph 0 is its own component and
\* glyph 2 has a component with point-matching arguments (no ARG_XY).
GlyfFonts ==
    { [cells |-> <<0, 0, 0, 0,  0, 2, 4, 11,  1, 7,  1, 9,  -1, 34, 1, 3, 2, 0, 0>>,
       loca |-> 4, localen |-> 4, glyf |-> 8, glyflen |-> 11, numglyphs |-> 3, cursor |-> 0],
      [cells |-> <<0, 2, 4, 11,  1, 7,  1, 9,  -1, 34, 1, 3, 2, 0, 0>>,
       loca |-> 0, localen |-> 4, glyf |-> 4, glyflen |-> 11, numglyphs |-> 3, cursor |-> 0],
      [cells |-> <<0, 0, 0, 0,  0, 4, 11, 13,  -1, 2, 1, 0,  -1, 34, 2, 0, 2, 0, 0,  1, 7>>,
       loca |-> 4, localen |-> 4, glyf |-> 8, glyflen |-> 13, numglyphs |-> 3, cursor |-> 0],
      [cells |-> <<0, 0, 0, 0,  0, 4, 6, 13,  -1, 2, 0, 0,  1, 7,  -1, 34, 1, 0, 0, 1, 3>>,
       loca |-> 4, localen |-> 4, glyf |-> 8, glyflen |-> 13, numglyphs |-> 3, cursor |-> 0] }

\* Two Font objects just loaded from the same file: nothing cached, the
\* reader where loading left it.
GlyfInit ==
    /\ glyfFont \in GlyfFonts
    /\ glyfCursor = [f \in {"a", "b"} |-> glyfFont.cursor]
    /\ glyfCache = [f \in {"a", "b"} |-> <<>>]
    /\ glyfFresh = [f \in {"a", "b"} |-> NoIdx]
    /\ glyfStack = <<>>
    /\ glyfActive = "a"
    /\ glyfState = "idle"
    /\ OthersIdle("Glyf")

\* Font.glyph_fromid(glyphid) on Font object f, up to the first component:
\* a cached glyph is returned as it is, any other is read from the file.
GlyphFromid(f, glyphid) ==
    /\ glyfState # "decoding"
    /\ glyfActive' = f
    /\ glyfFresh' = IF DOMAIN glyfCache[f] = {} /\ glyfCursor[f] = glyfFont.cursor
                    THEN [glyfFresh EXCEPT ![f] = glyphid]
                    ELSE glyfFresh
    /\ IF glyphid \in DOMAIN glyfCache[f]
       THEN /\ glyfState' = "returned"
            /\ UNCHANGED <<glyfCursor, glyfStack>>
       ELSE LET frame == GlyfFrame(glyfFont, glyfCursor[f], glyphid)
            IN  /\ glyfState' = "decoding"
                /\ glyfStack' = <<frame>>
                /\ glyfCursor' = [glyfCursor EXCEPT ![f] = frame.cursor]
    /\ UNCHANGED <<glyfFont, glyfCache>>
    /\ OthersUnchanged("Glyf")

\* read_compoundglyph, `for idx in glyphidxs`: the call of read_glyph_glyf
\* for the next component.
GlyfDescend ==
    /\ glyfState = "decoding"
    /\ Len(glyfStack) < MaxGlyfDepth
    /\ LET top == glyfStack[Len(glyfStack)]
       IN  /\ top.kind = "compound"
           /\ Len(top.glyphs) < Len(top.glyphidxs)
           /\ LET frame == GlyfFrame(glyfFont, glyfCursor[glyfActive],
                                     top.glyphidxs[Len(top.glyphs) + 1])
              IN  /\ glyfStack' = Append(glyfStack, frame)
                  /\ glyfCursor' = [glyfCursor EXCEPT ![glyfActive] = frame.cursor]
    /\ UNCHANGED <<glyfFont, glyfCache, glyfFresh, glyfActive, glyfState>>
    /\ OthersUnchanged("Glyf")

\* A read_glyph_glyf call returns its glyph: to the component list of the
\* calling read_compoundglyph, or to glyph_fromid, which stores it in
\* _glyphs under the id it was asked for and returns it.
GlyfReturn ==
    /\ glyfState = "decoding"
    /\ LET n == Len(glyfStack)
           top == glyfStack[n]
           operators == IF top.kind = "compound"
                        THEN buildcompound(top.glyphs, top.xforms, 1)
                        ELSE top.operators
       IN  /\ top.kind # "error"
           /\ top.kind = "compound" =>
                  /\ Len(top.glyphs) = Len(top.glyphidxs)
                  /\ \A k \in 1..Len(top.xforms) : ~top.xforms[k].match
           /\ IF n > 1
              THEN /\ glyfStack' = [SubSeq(glyfStack, 1, n - 1) EXCEPT
                                       ![n - 1].glyphs = Append(@, operators)]
                   /\ UNCHANGED <<glyfCache, glyfState>>
              ELSE /\ glyfStack' = <<>>
                   /\ glyfCache' = [glyfCache EXCEPT ![glyfActive] =
                          [g \in DOMAIN @ \cup {top.glyphid} |->
                              IF g = top.glyphid THEN operators ELSE @[g]]]
                   /\ glyfState' = "returned"
    /\ UNCHANGED <<glyfFont, glyfCursor, glyfFresh, glyfActive>>
    /\ OthersUnchanged("Glyf")

\* An exception leaves glyph_fromid: struct.error or ValueError from a read,
\* NotImplementedError from _buildcompound for a component with match set.
\* Nothing is stored in _glyphs.
GlyfRaise ==
    /\ glyfState = "decoding"
    /\ LET top == glyfStack[Len(glyfStack)]
       IN  \/ top.kind = "error"
           \/ /\ top.kind = "compound"
              /\ Len(top.glyphs) = Len(top.glyphidxs)
              /\ \E k \in 1..Len(top.xforms) : top.xforms[k].match
    /\ glyfStack' = <<>>
    /\ glyfState' = "error"
    /\ glyfFresh' = [glyfFresh EXCEPT ![glyfActive] =
           IF DOMAIN glyfCache[glyfActive] = {} THEN NoIdx ELSE @]
    /\ UNCHANGED <<glyfFont, glyfCursor, glyfCache, glyfActive>>
    /\ OthersUnchanged("Glyf")

\* The next component is due and the interpreter has no room for another
\* read_glyph_glyf call: its RecursionError leaves glyph_fromid and nothing
\* is stored in _glyphs.  The loop over the components tests no depth.
GlyfOverflow ==
    /\ glyfState = "decoding"
    /\ Len(glyfStack) >= MaxGlyfDepth
    /\ LET top == glyfStack[Len(glyfStack)]
       IN  /\ top.kind = "compound"
           /\ Len(top.glyphs) < Len(top.glyphidxs)
    /\ glyfStack' = <<>>
    /\ glyfState' = "overflow"
    /\ glyfFresh' = [glyfFresh EXCEPT ![glyfActive] =
           IF DOMAIN glyfCache[glyfActive] = {} THEN NoIdx ELSE @]
    /\ UNCHANGED <<glyfFont, glyfCursor, glyfCache, glyfActive>>
    /\ OthersUnchanged("Glyf")

\* Font._verifychecksum(table) for the loca or the glyf table, as a read
\* between two glyph_fromid calls: it seeks to the table and reads it to
\* its end.
VerifyChecksum(f, table) ==
    /\ glyfState # "decoding"
    /\ glyfCursor' = [glyfCursor EXCEPT ![f] =
           IF table = "loca" THEN glyfFont.loca + glyfFont.localen
           ELSE glyfFont.glyf + glyfFont.glyflen]
    /\ UNCHANGED <<glyfFont, glyfCache, glyfFresh, glyfStack, glyfActive, glyfState>>
    /\ OthersUnchanged("Glyf")

\* glyph_fromid takes the ids of the glyphs of the font and an id beyond
\* numGlyphs, whose loca entry would lie behind the loca table.
GlyfNext ==
    \/ \E f \in {"a", "b"}, glyphid \in (0..2) \cup {4} : GlyphFromid(f, glyphid)
    \/ GlyfDescend
    \/ GlyfReturn
    \/ GlyfRaise
    \/ GlyfOverflow
    \/ \E f \in {"a", "b"}, table \in {"loca", "glyf"} : VerifyChecksum(f, table)

GlyfSpec == GlyfInit /\ [][GlyfNext]_vars

\* C6: decoding a compound glyph stops at a bounded recursion depth, also
\* when a glyph is its own component or the components form a cycle: the
\* decoder ends such a composition with an error before the descent has
\* used up the interpreter's stack.
C6_BoundedDepth == glyfState # "overflow"

\* C7: whatever glyph_fromid calls and other reads came before, the
\* operators a Font object holds for a glyph are those a freshly loaded Font
\* over the same bytes returns for it.
C7_CachedEqualsFresh ==
    \A fresh \in {"a", "b"}, f \in {"a", "b"} :
        \A g \in DOMAIN glyfCache[fresh] \cap DOMAIN glyfCache[f] :
            glyfFresh[fresh] = g => glyfCache[f][g] = glyfCache[fresh][g]

(***************************************************************************)
(* Single calls of the lookup functions of parsed tables                   *)
(***************************************************************************)

\* The subroutine bias with the first limit taken inclusive.
SubrBiasInclusive(charstringtype, nsubs) ==
    IF charstringtype = 1 THEN 0
    ELSE IF nsubs <= 1240 THEN 107
    ELSE IF nsubs < 33900 THEN 1131
    ELSE 32768

\* CharString.readcharstr, CALLSUBR / CALLGSUBR: the bias for a subroutine
\* list of nsubs entries (len(sublist)).
SubrBias(charstringtype, nsubs) ==
    IF charstringtype = 1 THEN 0
    ELSE IF nsubs < 1240 THEN 107
    ELSE IF nsubs < 33900 THEN 1131
    ELSE 32768

\* The longest contour, in points.
MaxContour == 4

\* The table and the arguments of one call.  Coverage tables: the null
\* table, glyph lists (with a repeated glyph) and range lists with start
\* indexes, a gap and an overlap.  Subroutine calls: the operator, the
\* charstring type of the top dict, the sizes of the local and the global
\* subroutine list and the operand on top of the stack.  Compound glyphs:
\* two decoded simple glyphs (point coordinates and bounding box), the
\* offsets (e, f) of the two components and the bounding box read from the
\* header of the compound glyph.  Advance widths: the widths of the hmtx
\* long metrics, advanceWidthMax of hhea (never below a width of the
\* array) and a glyph id, in a font without GPOS table.  Typed reads: a
\* buffer of 16-bit fields, the cursor before the call inside the buffer or
\* at its end, and the offset argument, None (NoIdx) or a field of the
\* buffer.
CallInit ==
    /\ \/ /\ callFn = "covidx"
          /\ callArgs \in
                [cov : {[format |-> 0, glyphs |-> <<>>, ranges |-> <<>>, nulltable |-> TRUE],
                        Cov1(<<>>), Cov1(<<105, 99>>), Cov1(<<100, 105, 100>>),
                        Cov2(<<>>),
                        Cov2(<<CovRange(100, 110, 0)>>),
                        Cov2(<<CovRange(100, 102, 0), CovRange(105, 110, 3)>>),
                        Cov2(<<CovRange(99, 105, 4), CovRange(105, 110, 0)>>)},
                 glyph : 98..111]
          /\ callResult = NoIdx
       \/ /\ callFn = "callsubr"
          /\ callArgs \in
                [key : {"CALLSUBR", "CALLGSUBR"}, charstringtype : {1, 2},
                 localsubs : {0, 1239, 1240, 33899, 33900},
                 globalsub : {0, 1239, 1240, 33899, 33900, 40000},
                 operand : {-107, 0, 3}]
          /\ callResult = 0
       \/ /\ callFn = "compound"
          /\ callArgs \in
                [glyphs : {<<[xs |-> <<0, 4>>, ys |-> <<0, 3>>,
                             bbox |-> [xmin |-> 0, xmax |-> 4, ymin |-> 0, ymax |-> 3]],
                            [xs |-> <<1, 2>>, ys |-> <<0, 5>>,
                             bbox |-> [xmin |-> 1, xmax |-> 2, ymin |-> 0, ymax |-> 5]]>>},
                 xforms : {<<[e |-> 10, f |-> 0], [e |-> 0, f |-> 5]>>,
                           <<[e |-> 0, f |-> 0], [e |-> 0, f |-> 0]>>,
                           <<[e |-> 0, f |-> 5], [e |-> 10, f |-> 0]>>},
                 charbox : [xmin : {0, 1}, xmax : {4, 14}, ymin : {0}, ymax : {5, 8, 10}]]
          /\ callResult = [xs |-> <<>>, ys |-> <<>>, bbox |-> callArgs.charbox]
       \/ /\ callFn = "advance"
          /\ callArgs \in
                [advwidths : SeqsUpTo({500, 600}, 3), advwidthmax : {600, 700},
                 glyph : 0..4, kern : BOOLEAN]
          /\ callResult = 0
       \/ /\ callFn = "read"
          /\ callArgs \in
                [cells : {<<7, 8, 9>>, <<5, 5, 6, 7>>}, cursor : 0..4,
                 offset : {NoIdx} \cup 0..2]
          /\ callArgs.cursor <= Len(callArgs.cells)
          /\ callResult = [ok |-> FALSE, val |-> 0, cursor |-> callArgs.cursor]
       \/ /\ callFn = "contour"
          /\ callArgs \in
                UNION {[p : [1..n -> {<<0, 0>>, <<4, 0>>, <<1, 3>>}], c : [1..n -> BOOLEAN]] :
                          n \in 1..MaxContour}
          /\ callResult = <<>>
       \/ /\ callFn = "glyf"
          /\ callArgs \in
                [font : {\* a simple glyph, a record with 0 contours, a record with
                         \* -2 contours and one component, an empty glyph, a
                         \* compound glyph with one component
                         [cells |-> <<0, 0, 0, 0,  0, 2, 3, 7, 7, 11,  1, 7,  0,  -2, 2, 0, 3,
                                      -1, 2, 0, 5>>,
                          loca |-> 4, localen |-> 6, glyf |-> 10, glyflen |-> 11,
                          numglyphs |-> 5, cursor |-> 0],
                         \* two contours, an empty glyph, three contours
                         [cells |-> <<0, 0, 0, 0,  0, 3, 3, 7,  2, 7, 8,  3, 4, 5, 6>>,
                          loca |-> 4, localen |-> 4, glyf |-> 8, glyflen |-> 7,
                          numglyphs |-> 3, cursor |-> 0]},
                 glyphid : 0..4]
          /\ callArgs.glyphid < callArgs.font.numglyphs
          /\ callResult = [kind |-> "none", operators |-> <<>>, glyphidxs |-> <<>>]
    /\ callState = "ready"
    /\ OthersIdle("Call")

\* Coverage.covidx(glyph)
CovidxCall ==
    /\ callFn = "covidx"
    /\ callState = "ready"
    /\ callResult' = CovIdx(callArgs.cov, callArgs.glyph)
    /\ callState' = "done"
    /\ UNCHANGED <<callFn, callArgs>>
    /\ OthersUnchanged("Call")

\* CharString.readcharstr at a CALLSUBR or CALLGSUBR operator: the index
\* into the subroutine list, int(self.stack[-1] + bias).
SubrIndexCall ==
    /\ callFn = "callsubr"
    /\ callState = "ready"
    /\ LET sublist == IF callArgs.key = "CALLSUBR" THEN callArgs.localsubs
                      ELSE callArgs.globalsub
       IN  callResult' = callArgs.operand + SubrBias(callArgs.charstringtype, sublist)
    /\ callState' = "done"
    /\ UNCHANGED <<callFn, callArgs>>
    /\ OthersUnchanged("Call")

\* read_compoundglyph once the components are decoded: GlyphComp(glyphs,
\* xforms, charbox) and CompoundGlyph(index, comp, font), whose operators
\* are the components' points moved by (e, f) and whose bbox is
\* self.glyphs.bbox, the box of the header.
CompoundCall ==
    /\ callFn = "compound"
    /\ callState = "ready"
    /\ callResult' =
          [xs |-> buildcompound([k \in 1..Len(callArgs.glyphs) |-> callArgs.glyphs[k].xs],
                                callArgs.xforms, 1),
           ys |-> buildcompound([k \in 1..Len(callArgs.glyphs) |-> callArgs.glyphs[k].ys],
                                [k \in 1..Len(callArgs.xforms) |-> [e |-> callArgs.xforms[k].f]], 1),
           bbox |-> callArgs.charbox]
    /\ callState' = "done"
    /\ UNCHANGED <<callFn, callArgs>>
    /\ OthersUnchanged("Call")

\* Font.advance(glyph, None): the width of the glyph's hmtx entry, and
\* for IndexError info.layout.advwidthmax.width.  Without a second glyph
\* and without GPOS table the kerning branch is not taken.
AdvanceCall ==
    /\ callFn = "advance"
    /\ callState = "ready"
    /\ callResult' = IF callArgs.glyph < Len(callArgs.advwidths)
                     THEN callArgs.advwidths[callArgs.glyph + 1]
                     ELSE callArgs.advwidthmax
    /\ callState' = "done"
    /\ UNCHANGED <<callFn, callArgs>>
    /\ OthersUnchanged("Call")

\* FontReader.readuint16(offset) on a reader whose cursor is where earlier
\* reads left it.
ReadCall ==
    /\ callFn = "read"
    /\ callState = "ready"
    /\ callResult' = ReadCell(callArgs.cells, callArgs.cursor, callArgs.offset)
    /\ callState' = "done"
    /\ UNCHANGED <<callFn, callArgs>>
    /\ OthersUnchanged("Call")

\* read_glyph_glyf(glyphid, font) on a font just loaded, up to the glyph it
\* builds: empty, simple with its operators, compound with its component
\* ids, or an exception.
GlyfCall ==
    /\ callFn = "glyf"
    /\ callState = "ready"
    /\ LET frame == GlyfFrame(callArgs.font, callArgs.font.cursor, callArgs.glyphid)
       IN  callResult' = [kind |-> frame.kind, operators |-> frame.operators,
                          glyphidxs |-> frame.glyphidxs]
    /\ callState' = "done"
    /\ UNCHANGED <<callFn, callArgs>>
    /\ OthersUnchanged("Call")

\* read_simpleglyph, the Moveto in front of a contour with the points p and
\* the control flags c (TRUE: off the curve).  Coordinates are doubled, so
\* that (p[0] + p[-1])/2 is a whole number.
ContourStartAtFirst(p, c) ==
    <<2 * p[1][1], 2 * p[1][2]>>

ContourStart(p, c) ==
    IF c[1]
    THEN IF c[Len(c)]
         THEN <<p[1][1] + p[Len(p)][1], p[1][2] + p[Len(p)][2]>>
         ELSE <<2 * p[Len(p)][1], 2 * p[Len(p)][2]>>
    ELSE <<2 * p[1][1], 2 * p[1][2]>>

\* read_simpleglyph, one round of `for p, c in zip(points, controls)`: the
\* operators of one contour.  Each operator is held with the index i of the
\* point the while loop stood at.
ContourCall ==
    /\ callFn = "contour"
    /\ callState = "ready"
    /\ LET p == callArgs.p
           c == callArgs.c
           npoints == Len(p)
           Moveto(to) == [op |-> "M", i |-> 0, ctrl |-> to, to |-> to]
           Lineto(i) == [op |-> "L", i |-> i, ctrl |-> <<2 * p[i][1], 2 * p[i][2]>>,
                         to |-> <<2 * p[i][1], 2 * p[i][2]>>]
           Quad(i, to) == [op |-> "Q", i |-> i, ctrl |-> <<2 * p[i][1], 2 * p[i][2]>>, to |-> to]
           RECURSIVE While(_)
           While(i) ==
               IF i > npoints THEN <<>>
               ELSE IF c[i]
               THEN IF i = npoints
                    THEN IF c[1]
                         THEN <<Quad(i, <<p[1][1] + p[npoints][1], p[1][2] + p[npoints][2]>>)>>
                         ELSE <<Quad(i, <<2 * p[1][1], 2 * p[1][2]>>)>>
                    ELSE IF c[i + 1]
                    THEN <<Quad(i, <<p[i][1] + p[i + 1][1], p[i][2] + p[i + 1][2]>>)>>
                         \o While(i + 1)
                    ELSE <<Quad(i, <<2 * p[i + 1][1], 2 * p[i + 1][2]>>)>> \o While(i + 2)
               ELSE <<Lineto(i)>> \o While(i + 1)
       IN  callResult' = <<Moveto(ContourStart(p, c))>> \o While(1)
    /\ callState' = "done"
    /\ UNCHANGED <<callFn, callArgs>>
    /\ OthersUnchanged("Call")

CallNext ==
    \/ ContourCall
    \/ GlyfCall
    \/ CovidxCall
    \/ SubrIndexCall
    \/ CompoundCall
    \/ AdvanceCall
    \/ ReadCall

CallSpec == CallInit /\ [][CallNext]_vars

\* What C11 states for the index idx returned for glyph in coverage table cov.
C11_Index(cov, glyph, idx) ==
    LET inrange(k) == cov.ranges[k].startglyph <= glyph /\ glyph <= cov.ranges[k].endglyph
    IN  IF cov.nulltable THEN idx = NoIdx
        ELSE IF cov.format = 1
        THEN IF \A k \in 1..Len(cov.glyphs) : cov.glyphs[k] # glyph
             THEN idx = NoIdx
             ELSE /\ idx \in 0..(Len(cov.glyphs) - 1)
                  /\ cov.glyphs[idx + 1] = glyph
                  /\ \A k \in 1..idx : cov.glyphs[k] # glyph
        ELSE IF \A k \in 1..Len(cov.ranges) : ~inrange(k)
             THEN idx = NoIdx
             ELSE \E k \in 1..Len(cov.ranges) :
                     /\ inrange(k)
                     /\ \A j \in 1..(k - 1) : ~inrange(j)
                     /\ idx = cov.ranges[k].covidx + (glyph - cov.ranges[k].startglyph)

\* C11: covidx returns the position of the glyph in the glyph list (format
\* 1), the start index of the range that holds the glyph plus the glyph's
\* distance from the start of the range (format 2), and None for a glyph in
\* no entry and for the null table; range (100, 110, 0) gives 5 for glyph
\* 105 and None for glyph 99.  The call leaves the table as it was.
C11_Covidx ==
    [][(callFn = "covidx" /\ callState = "ready" /\ callState' = "done") =>
          /\ C11_Index(callArgs.cov, callArgs.glyph, callResult')
          /\ callArgs.cov = Cov2(<<CovRange(100, 110, 0)>>) =>
                /\ callArgs.glyph = 105 => callResult' = 5
                /\ callArgs.glyph = 99 => callResult' = NoIdx
          /\ callArgs' = callArgs]_vars

\* covidx has returned 5 for glyph 105 in range (100, 110, 0).
C11_Witness ==
    /\ callFn = "covidx"
    /\ callState = "done"
    /\ callArgs = [cov |-> Cov2(<<CovRange(100, 110, 0)>>), glyph |-> 105]
    /\ callResult = 5

\* The number of subroutines in the list that the operator of the call names.
C12_Count == IF callArgs.key = "CALLSUBR" THEN callArgs.localsubs ELSE callArgs.globalsub

\* C12: the bias added to the subroutine index depends only on the
\* charstring type and on the size of the list that is called (local for
\* callsubr, global for callgsubr): 0 for charstring type 1, else 107 below
\* 1240 subroutines, 1131 from 1240 to 33899 and 32768 from 33900 on.
C12_Bias ==
    (callFn = "callsubr" /\ callState = "done") =>
        callResult - callArgs.operand =
            CASE callArgs.charstringtype = 1 -> 0
              [] callArgs.charstringtype # 1 /\ C12_Count \in 0..1239 -> 107
              [] callArgs.charstringtype # 1 /\ C12_Count \in 1240..33899 -> 1131
              [] callArgs.charstringtype # 1 /\ C12_Count >= 33900 -> 32768

\* A callgsubr with 1240 global and 1239 local subroutines has used bias 1131.
C12_Witness ==
    /\ callFn = "callsubr"
    /\ callState = "done"
    /\ callArgs = [key |-> "CALLGSUBR", charstringtype |-> 2, localsubs |-> 1239,
                   globalsub |-> 1240, operand |-> 3]
    /\ callResult = 1134

\* The union of the components' bounding boxes, each moved by its offset.
C13_Union ==
    LET n == Len(callArgs.glyphs)
        box(k) == callArgs.glyphs[k].bbox
        xf(k) == callArgs.xforms[k]
    IN  [xmin |-> CHOOSE v \in {box(k).xmin + xf(k).e : k \in 1..n} :
                      \A k \in 1..n : v <= box(k).xmin + xf(k).e,
         xmax |-> CHOOSE v \in {box(k).xmax + xf(k).e : k \in 1..n} :
                      \A k \in 1..n : v >= box(k).xmax + xf(k).e,
         ymin |-> CHOOSE v \in {box(k).ymin + xf(k).f : k \in 1..n} :
                      \A k \in 1..n : v <= box(k).ymin + xf(k).f,
         ymax |-> CHOOSE v \in {box(k).ymax + xf(k).f : k \in 1..n} :
                      \A k \in 1..n : v >= box(k).ymax + xf(k).f]

\* C13: the bounding box of a compound glyph is the union of its
\* components' bounding boxes after each component's transform, and every
\* transformed point of the compound lies inside it.
C13_BboxIsUnion ==
    (callFn = "compound" /\ callState = "done") =>
        /\ callResult.bbox = C13_Union
        /\ \A j \in 1..Len(callResult.xs) :
              /\ callResult.bbox.xmin <= callResult.xs[j]
              /\ callResult.xs[j] <= callResult.bbox.xmax
              /\ callResult.bbox.ymin <= callResult.ys[j]
              /\ callResult.ys[j] <= callResult.bbox.ymax

\* C14: the advance width of a glyph beyond the hmtx long-metrics array is
\* the advance of the last entry of the array; inside the array it is the
\* advance of the glyph's own entry.
C14_AdvanceBeyondArray ==
    (callFn = "advance" /\ callState = "done" /\ callArgs.advwidths # <<>>) =>
        callResult = IF callArgs.glyph < Len(callArgs.advwidths)
                     THEN callArgs.advwidths[callArgs.glyph + 1]
                     ELSE callArgs.advwidths[Len(callArgs.advwidths)]

\* C15: a glyph id is validated against numGlyphs before it is used:
\* glyph_fromid(g) with g outside 0..numGlyphs-1 reads no glyph data for g
\* and stores nothing in the glyph cache under g.
C15_IdValidated ==
    /\ glyfState = "decoding" =>
           glyfStack[1].glyphid \in 0..(glyfFont.numglyphs - 1)
    /\ \A f \in {"a", "b"} :
           DOMAIN glyfCache[f] \subseteq 0..(glyfFont.numglyphs - 1)

\* C16: a typed read given an offset n >= 0, n = 0 included, returns the
\* value stored at n and leaves the cursor behind that field, wherever the
\* cursor was before; a read given no offset reads the field at the cursor
\* and moves the cursor behind it.
C16_ReadAtOffset ==
    (callFn = "read" /\ callState = "done") =>
        LET n == IF callArgs.offset = NoIdx THEN callArgs.cursor
                 ELSE callArgs.offset
        IN  n < Len(callArgs.cells) =>
                callResult = [ok |-> TRUE, val |-> callArgs.cells[n + 1],
                              cursor |-> n + 1]

\* The position behind the input span matched at frame.i: the covered glyph
\* and the rule's input glyphs in format 1 and 2, the glyphs of the input
\* coverages in format 3.
C17_SpanEnd(frame) ==
    IF ChainSubtableOf(frame).type = "chained3"
    THEN frame.i + Len(ChainSubtableOf(frame).inptCoverage)
    ELSE frame.i + 1 + Len(ChainRuleOf(frame).input)

\* C17: when a chained-context rule has matched at i, each sequence-lookup
\* record hands the nested lookup exactly the glyphs from i + sequenceIndex
\* to the end of the matched input span, and the result replaces exactly
\* that span: the glyphs before and behind it stay as they are.
C17_NestedSpan ==
    [][/\ (chState' = "running" /\ Len(chStack') = Len(chStack) + 1) =>
              LET rec == ChainSeqsOf(ChainTop)[ChainTop.seq]
              IN  chStack'[Len(chStack')].glyphids =
                      PySlice(ChainTop.glyphids, ChainTop.i + rec.sequenceindex,
                              C17_SpanEnd(ChainTop))
       /\ (Len(chStack) > 1 /\ Len(chStack') = Len(chStack) - 1) =>
              LET caller == chStack[Len(chStack) - 1]
                  rec == ChainSeqsOf(caller)[caller.seq]
              IN  chStack'[Len(chStack')].glyphids =
                      PySlice(caller.glyphids, 0, caller.i + rec.sequenceindex)
                      \o ChainTop.glyphids
                      \o PySlice(caller.glyphids, C17_SpanEnd(caller),
                                 Len(caller.glyphids))]_vars

\* C18: the scan of a chained-context subtable goes on one position behind
\* a position where nothing matched, however many rules were tried there,
\* and behind the input span after a match.
C18_ScanMoves ==
    [][(/\ chState = "running" /\ chState' = "running"
        /\ Len(chStack') = Len(chStack)
        /\ ChainTop.pc \in {"while", "rule", "seq"}
        /\ chStack'[Len(chStack')].pc = "while") =>
            chStack'[Len(chStack')].i =
                CASE ChainTop.pc = "while" -> ChainTop.i + 1
                  [] ChainTop.pc = "rule" ->
                        ChainTop.pos + (IF ChainTop.span = 0 THEN 1 ELSE ChainTop.span)
                  [] ChainTop.pc = "seq" ->
                        ChainTop.i + Len(ChainSubtableOf(ChainTop).inptCoverage)]_vars

\* C19: at one scan position of a format-1 or format-2 subtable only the
\* first rule that matches is applied: once a rule has matched there, no
\* further rule of the rule set is tested.
C19_FirstMatchOnly ==
    \A k \in 1..Len(chStack) :
        (chStack[k].pc = "rule" /\ chStack[k].span # 0) =>
            chStack[k].rule > Len(ChainSubtableOf(chStack[k]).rules[chStack[k].ruleset + 1])

\* C20: single adjustment gives every covered glyph the delta of the
\* subtable's value record, the one shared record in format 1 and the
\* record at the glyph's own coverage index in format 2, and (0, 0, 0) to
\* every uncovered glyph.
C20_OwnRecord ==
    (adjState # "ready" /\ adjSub.type \in {"single1", "single2"}) =>
        /\ adjState = "returned"
        /\ Len(adjDeltas) = Len(adjGids)
        /\ \A k \in 1..Len(adjGids) :
              LET covidx == CovIdx(adjSub.coverage, adjGids[k])
                  rec == IF adjSub.type = "single1" THEN adjSub.valuerecord
                         ELSE adjSub.valuerecords[covidx + 1]
              IN  adjDeltas[k] = IF covidx = NoIdx THEN PositionDelta(0, 0, 0)
                                 ELSE PositionDelta(rec.x, rec.y, rec.xadvance)

\* The feature table without its mark feature, and the mark feature's
\* subtable.
C21_NoMark(feattable) == SelectSeq(feattable, LAMBDA ft : ft.tag # "mark")
C21_MarkSub(feattable) ==
    (CHOOSE ft \in {feattable[k] : k \in 1..Len(feattable)} : ft.tag = "mark").lookups[1][1]

\* Glyph k is a covered mark behind a covered base glyph whose anchor for
\* the mark's class exists.
C21_Attached(sub, glyphids, k) ==
    /\ k > 1
    /\ CovIdx(sub.markcoverage, glyphids[k]) # NoIdx
    /\ CovIdx(sub.basecoverage, glyphids[k - 1]) # NoIdx
    /\ sub.basearray[CovIdx(sub.basecoverage, glyphids[k - 1]) + 1]
          [sub.markarray[CovIdx(sub.markcoverage, glyphids[k]) + 1].markclass + 1] # <<>>

C22_ArrayLookup ==
    /\ c4State # "error"
    /\ (c4State = "built" /\ c4Call # <<>> /\ C9_SegsOf(c4Call[1]) # {}) =>
          LET k == C9_LastSegOf(c4Call[1])
              s == c4Segs[k]
              idx == Cmap4ArrayIdx(k - 1, Len(c4Segs), s, c4Call[1])
          IN  s.rangeoffset # 0 =>
                c4Call[2] = IF idx < 0 \/ idx >= Len(c4Array) THEN 0
                            ELSE IF c4Array[idx + 1] = 0 THEN 0
                            ELSE c4Array[idx + 1] + s.delta

(***************************************************************************)
(* Font.usecmap and Font.glyphindex (font.py)                              *)
(***************************************************************************)

\* A font after load: one or two decoded cmaps, which map the characters
\* 65 and 66 alike or differently or leave 66 out; either may be the active
\* one; no character was looked up yet.
UseInit ==
    /\ useCmaps \in UNION {[1..n -> {(65 :> 3) @@ (66 :> 4), (65 :> 3) @@ (66 :> 7),
                                    (65 :> 5)}] : n \in 1..2}
    /\ useCmap \in 0..(Len(useCmaps) - 1)
    /\ useGlyphids = <<>>
    /\ useCall = <<>>
    /\ OthersIdle("Use")

\* font.py:279-281  Font.usecmap(cmapidx)
Usecmap(cmapidx) ==
    /\ cmapidx < Len(useCmaps)
    /\ useCmap' = cmapidx
    /\ useCall' = <<>>
    /\ UNCHANGED <<useCmaps, useGlyphids>>
    /\ OthersUnchanged("Use")

\* font.py:328-334  Font.glyphindex(char)
Glyphindex(char) ==
    /\ LET gid == IF char \in DOMAIN useGlyphids THEN useGlyphids[char]
                  ELSE Cmap4Glyphid(useCmaps[useCmap + 1], char)
       IN  /\ useGlyphids' = [c \in DOMAIN useGlyphids \cup {char} |->
                                 IF c = char THEN gid ELSE useGlyphids[c]]
           /\ useCall' = <<char, gid>>
    /\ UNCHANGED <<useCmaps, useCmap>>
    /\ OthersUnchanged("Use")

UseNext ==
    \/ \E cmapidx \in 0..1 : Usecmap(cmapidx)
    \/ \E char \in {65, 66, 67} : Glyphindex(char)

UseSpec == UseInit /\ [][UseNext]_vars

\* C23: glyphindex(char) returns the glyph id that the cmap which is active
\* at the call assigns to char, whatever usecmap and glyphindex calls came
\* before.
C23_ActiveCmapAnswers ==
    useCall # <<>> => useCall[2] = Cmap4Glyphid(useCmaps[useCmap + 1], useCall[1])

\* ---------------------------------------------------------------------
\* CFF charstrings: CharString.readcharstr and charstr2path
\* ---------------------------------------------------------------------

\* The deepest nesting of readcharstr calls the model follows; the next call
\* ends the read like the interpreter's RecursionError.
MaxCsDepth == 3

\* glyphcff.py:18-73  the values of the Operator enum; a two-byte operator
\* 12 b has the value 3072 + b, WIDTH is -999
Operator ==
    {1, 3, 4, 5, 6, 7, 8, 10, 11, 14, 18, 19, 20, 21, 22, 23, 24, 25, 26, 27, 29, 30, 31}
    \cup {3075, 3076, 3077, 3081, 3082, 3084, 3086, 3087, 3090, 3092, 3093, 3094, 3095,
          3096, 3098, 3099, 3100, 3101, 3102, 3106, 3107, 3108, 3109}
    \cup {-999}

\* glyphcff.py:102-107, 367-375  read_glyph_cff hands the glyph's charstring
\* to charstr2path, which builds a CharString: empty stack, no operators, no
\* hints, and readcharstr entered on the whole charstring.  An operand n in
\* -107..107 is the byte 139 + n; none of the charstrings has a curve
\* operator.
CsInit ==
    /\ csFont \in
         {[charstr |-> cs, localsubs |-> ls, globalsub |-> <<<<144, 145, 5, 11>>>>,
           charstringtype |-> 2, defaultwidth |-> 500, nominalwidth |-> 600] :
            cs \in {\* 50 1 2 rmoveto, -107 callsubr, endchar
                    <<189, 140, 141, 21, 32, 10, 14>>,
                    \* 1 2 rmoveto, -107 callgsubr, -106 callsubr, endchar
                    <<140, 141, 21, 32, 29, 33, 10, 14>>,
                    \* 50 1 2 -107 callsubr: the first operator is in the subroutine
                    <<189, 140, 141, 32, 10, 14>>,
                    \* 1 hmoveto, endchar: no width
                    <<140, 22, 14>>,
                    \* 50 endchar
                    <<189, 14>>,
                    \* 10.5 1 vmoveto, 3 4 rlineto, endchar
                    <<255, 0, 10, 128, 0, 140, 4, 142, 143, 5, 14>>,
                    \* 300 (two bytes) 1 2 hstem, 3 4 rlineto, endchar
                    <<247, 192, 140, 141, 1, 142, 143, 5, 14>>,
                    \* 1 2 rmoveto, reserved 2, 3 4 rlineto, endchar
                    <<140, 141, 21, 2, 142, 143, 5, 14>>,
                    \* 1 2 rmoveto, 12 0 (undefined), 3 4 rlineto, endchar
                    <<140, 141, 21, 12, 0, 142, 143, 5, 14>>,
                    \* 1 2 rmoveto, 3 4 add (12 10), endchar
                    <<140, 141, 21, 142, 143, 12, 10, 14>>,
                    \* 1 2 hstemhm, 3 4 hintmask with mask 21, 1 2 rmoveto, endchar
                    <<140, 141, 18, 142, 143, 19, 21, 140, 141, 21, 14>>,
                    \* 7 1 2 3 4 hintmask with mask 14, cntrmask with mask 5, endchar
                    <<146, 140, 141, 142, 143, 19, 14, 20, 5, 14>>,
                    \* eight hstemhm hints, 1 2 hintmask with the mask 10 20, endchar
                    <<140, 141, 140, 141, 140, 141, 140, 141, 140, 141, 140, 141, 140, 141,
                      140, 141, 18, 140, 141, 19, 10, 20, 14>>,
                    \* eight hstem hints, 1 2 hintmask with the mask 10 20, endchar
                    <<140, 141, 140, 141, 140, 141, 140, 141, 140, 141, 140, 141, 140, 141,
                      140, 141, 1, 140, 141, 19, 10, 20, 14>>,
                    \* 1 2 hstem, -106 callsubr (1 2 vstem inside), hintmask, mask 3, endchar
                    <<140, 141, 1, 33, 10, 19, 3, 14>>,
                    \* callsubr on an empty stack
                    <<10, 14>>,
                    \* -105 callsubr: no such subroutine
                    <<34, 10, 14>>,
                    \* 1 rmoveto: one operand short
                    <<140, 21, 14>>,
                    \* a two-byte operand cut off
                    <<140, 247>>},
            ls \in {\* 3 4 rlineto return;  1 2 vstem return
                    <<<<142, 143, 5, 11>>, <<140, 141, 3, 11>>>>,
                    \* 3 4 rlineto return 5 6 rlineto;  1 2 vstem, without return
                    <<<<142, 143, 5, 11, 144, 145, 5>>, <<140, 141, 3>>>>,
                    \* rmoveto return;  -106 callsubr: calls itself
                    <<<<21, 11>>, <<33, 10, 11>>>>}}
    /\ csFrames = <<[buf |-> csFont.charstr, pc |-> 0, ret |-> FALSE]>>
    /\ csStack = <<>>
    /\ csOps = <<>>
    /\ csNhints = 0
    /\ csOut = [width |-> 0, path |-> <<>>]
    /\ csLog = [broke |-> FALSE, afterret |-> FALSE, first |-> <<>>, hints |-> 0, mask |-> <<>>]
    /\ csState = "reading"
    /\ OthersIdle("Cs")

\* glyphcff.py:397-489  one pass of the while loop of readcharstr: the byte
\* at the head of buf is an operator (with its width test, its subroutine
\* call or its mask bytes) or the first byte of an operand.  A number on the
\* stack is held in units of 1/65536, the step of the 16.16 operand 255.
Readcharstr ==
    /\ csState = "reading"
    /\ LET d == Len(csFrames)
           top == csFrames[d]
           buf == top.buf
           pc == top.pc
           rest == Len(buf) - pc
           int(v) == IF v >= 0 THEN v \div 65536 ELSE -((-v) \div 65536)
           Moved(n) == [csFrames EXCEPT ![d].pc = Min(pc + n, Len(buf))]
           log == [csLog EXCEPT !.afterret = @ \/ top.ret]
           Set(f, s, o, n, l, st) ==
               /\ csFrames' = f /\ csStack' = s /\ csOps' = o
               /\ csNhints' = n /\ csLog' = l /\ csState' = st
           Raise == Set(csFrames, csStack, csOps, csNhints, log, "error")
           Push(v, n) ==
               IF rest < n THEN Raise
               ELSE Set(Moved(n), Append(csStack, v), csOps, csNhints, log, "reading")
       IN  /\ rest > 0
           /\ LET b == buf[pc + 1]
                  nbytes == IF b = 12 THEN 2 ELSE 1
                  key == IF b = 12 THEN 3072 + buf[pc + 2] ELSE b
                  lenstack == Len(csStack)
                  width ==
                      /\ Len(csOps) = 0
                      /\ \/ key \in {20, 14} /\ lenstack = 1
                         \/ key \in {22, 4} /\ lenstack > 1
                         \/ key = 21 /\ lenstack > 2
                         \/ key \in {1, 18, 3, 23, 19} /\ lenstack % 2 # 0
                  \* addwidth()
                  ops1 == IF width THEN <<[op |-> -999, operands |-> <<csStack[1]>>]>>
                          ELSE csOps
                  stack1 == IF width THEN Tail(csStack) ELSE csStack
                  log1 == IF Len(csOps) = 0 /\ key \notin {10, 29, 11} /\ log.first = <<>>
                          THEN [log EXCEPT !.first =
                                   <<key, lenstack, IF lenstack > 0 THEN csStack[1] ELSE 0>>]
                          ELSE log
                  sublist == IF key = 10 THEN csFont.localsubs ELSE csFont.globalsub
                  bias == SubrBias(csFont.charstringtype, Len(sublist))
                  implied ==
                      \/ Len(ops1) > 0 /\ ops1[Len(ops1)].op = 18 /\ Len(stack1) > 0
                      \/ Len(ops1) = 0
                      \/ Len(ops1) = 1 /\ ops1[1].op = -999
                  masknhints == csNhints + (IF implied THEN Len(stack1) \div 2 ELSE 0)
                  hintbytes == (masknhints + 7) \div 8
                  maskops == IF implied THEN Append(ops1, [op |-> 23, operands |-> stack1])
                             ELSE ops1
                  maskbytes == [i \in 1..Min(hintbytes, rest - 1) |-> buf[pc + 1 + i]]
              IN  IF b <= 27 \/ (29 <= b /\ b <= 31)
                  THEN IF b = 12 /\ rest < 2
                       THEN Raise
                       ELSE IF key \notin Operator
                       THEN \* break
                            Set([csFrames EXCEPT ![d].pc = Len(buf)], csStack, csOps, csNhints,
                                [log EXCEPT !.broke = @ \/ \A k \in DOMAIN csOps : csOps[k].op # 14],
                                "reading")
                       ELSE IF key \in {10, 29}
                       THEN IF Len(stack1) = 0
                            THEN Raise
                            ELSE LET idx == int(stack1[Len(stack1)] + bias * 65536)
                                     at == IF idx < 0 THEN idx + Len(sublist) ELSE idx
                                 IN  IF at < 0 \/ at >= Len(sublist) \/ d >= MaxCsDepth
                                     THEN Raise
                                     ELSE Set(Append(Moved(nbytes),
                                                     [buf |-> sublist[at + 1], pc |-> 0,
                                                      ret |-> FALSE]),
                                              SubSeq(stack1, 1, Len(stack1) - 1), ops1,
                                              csNhints, log1, "reading")
                       ELSE IF key \in {19, 20}
                       THEN Set(Moved(hintbytes + 1), <<>>,
                                Append(maskops, [op |-> key, operands |-> maskbytes]),
                                masknhints,
                                [log1 EXCEPT !.hints = @ + (Len(stack1) \div 2),
                                             !.mask = <<hintbytes,
                                                        log1.hints + (Len(stack1) \div 2)>>],
                                "reading")
                       ELSE IF key \in {1, 18, 3, 23}
                       THEN Set(Moved(nbytes), <<>>,
                                Append(ops1, [op |-> key, operands |-> stack1]),
                                csNhints + (Len(stack1) \div 2),
                                [log1 EXCEPT !.hints = @ + (Len(stack1) \div 2)], "reading")
                       ELSE IF key = 11
                       THEN Set([Moved(nbytes) EXCEPT ![d].ret = TRUE], stack1, ops1,
                                csNhints, log1, "reading")
                       ELSE Set(Moved(nbytes), <<>>,
                                Append(ops1, [op |-> key, operands |-> stack1]),
                                csNhints, log1, "reading")
                  ELSE IF b = 28
                  THEN IF rest < 3 THEN Raise
                       ELSE LET h == buf[pc + 2] * 256 + buf[pc + 3]
                            IN  Push((IF h >= 32768 THEN h - 65536 ELSE h) * 65536, 3)
                  ELSE IF b <= 246
                  THEN Push((b - 139) * 65536, 1)
                  ELSE IF b <= 250
                  THEN IF rest < 2 THEN Raise
                       ELSE Push(((b - 247) * 256 + buf[pc + 2] + 108) * 65536, 2)
                  ELSE IF b <= 254
                  THEN IF rest < 2 THEN Raise
                       ELSE Push((-((b - 251) * 256) - buf[pc + 2] - 108) * 65536, 2)
                  ELSE IF rest < 5 THEN Raise
                       ELSE LET hi == buf[pc + 2] * 256 + buf[pc + 3]
                                lo == buf[pc + 4] * 256 + buf[pc + 5]
                            IN  Push((IF hi >= 32768 THEN hi - 65536 ELSE hi) * 65536 + lo, 5)
    /\ UNCHANGED <<csFont, csOut>>
    /\ OthersUnchanged("Cs")

\* glyphcff.py:397  `while len(buf) > 0` is over: readcharstr returns, to
\* the readcharstr that called the subroutine or to CharString.__init__
ReadcharstrReturn ==
    /\ csState = "reading"
    /\ csFrames[Len(csFrames)].pc >= Len(csFrames[Len(csFrames)].buf)
    /\ csFrames' = SubSeq(csFrames, 1, Len(csFrames) - 1)
    /\ csState' = IF Len(csFrames) = 1 THEN "read" ELSE "reading"
    /\ UNCHANGED <<csFont, csStack, csOps, csNhints, csOut, csLog>>
    /\ OthersUnchanged("Cs")

\* glyphcff.py:110-353  charstr2path after the CharString is built: the loop
\* over the operators and their operands, which sets the width and draws the
\* path (the moveto and lineto operators here), and raises on an operator it
\* does not know
Charstr2path ==
    /\ csState = "read"
    /\ LET int(v) == IF v >= 0 THEN v \div 65536 ELSE -((-v) \div 65536)
           RECURSIVE Lines(_, _, _, _, _)
           \* the lineto operators: value from its i-th operand on, pen at p
           Lines(op, value, i, p, path) ==
               IF op = 5
               THEN IF i + 1 > Len(value) THEN [p |-> p, path |-> path]
                    ELSE LET q == <<p[1] + value[i], p[2] + value[i + 1]>>
                         IN  Lines(op, value, i + 2, q, Append(path, <<"L", q[1], q[2]>>))
               ELSE IF i > Len(value) THEN [p |-> p, path |-> path]
                    ELSE LET horizontal == (op = 6) = (i % 2 = 1)
                             q == IF horizontal THEN <<p[1] + value[i], p[2]>>
                                  ELSE <<p[1], p[2] + value[i]>>
                         IN  Lines(op, value, i + 1, q, Append(path, <<"L", q[1], q[2]>>))
           RECURSIVE Loop(_, _, _, _)
           Loop(k, p, width, path) ==
               IF k > Len(csOps)
               THEN [raised |-> FALSE, width |-> width, path |-> path]
               ELSE LET op == csOps[k].op
                        value == csOps[k].operands
                        Move(q) == Loop(k + 1, q, width, Append(path, <<"M", q[1], q[2]>>))
                        raise == [raised |-> TRUE, width |-> width, path |-> path]
                    IN  IF op = -999
                        THEN Loop(k + 1, p, csFont.nominalwidth + int(value[1]), path)
                        ELSE IF op = 21
                        THEN IF Len(value) < 2 THEN raise
                             ELSE Move(<<p[1] + value[1], p[2] + value[2]>>)
                        ELSE IF op = 22
                        THEN IF Len(value) < 1 THEN raise ELSE Move(<<p[1] + value[1], p[2]>>)
                        ELSE IF op = 4
                        THEN IF Len(value) < 1 THEN raise ELSE Move(<<p[1], p[2] + value[1]>>)
                        ELSE IF op \in {5, 6, 7}
                        THEN LET drawn == Lines(op, value, 1, p, path)
                             IN  Loop(k + 1, drawn.p, width, drawn.path)
                        ELSE IF op \in {1, 19, 3, 23, 18, 11, 20, 14}
                        THEN Loop(k + 1, p, width, path)
                        ELSE raise
           out == Loop(1, <<0, 0>>, csFont.defaultwidth, <<>>)
       IN  /\ csOut' = IF out.raised THEN csOut ELSE [width |-> out.width, path |-> out.path]
           /\ csState' = IF out.raised THEN "error" ELSE "done"
    /\ UNCHANGED <<csFont, csFrames, csStack, csOps, csNhints, csLog>>
    /\ OthersUnchanged("Cs")

CsNext ==
    \/ Readcharstr
    \/ ReadcharstrReturn
    \/ Charstr2path

CsSpec == CsInit /\ [][CsNext]_vars

\* C24: callsubr and callgsubr take the top value off the stack and run the
\* subroutine at index value + bias of the local or global list, on the same
\* stack and hint count, the caller going on at the byte after the call
\* operator; once a subroutine has met its return operator it reads no
\* further byte and returns, and it returns the same way at its end.
C24_CallAndReturn ==
    [][csState = "reading" =>
         LET d == Len(csFrames)
             top == csFrames[d]
         IN  /\ Len(csFrames') = d + 1 =>
                  LET sublist == IF top.buf[top.pc + 1] = 10 THEN csFont.localsubs
                                 ELSE csFont.globalsub
                      value == csStack[Len(csStack)] \div 65536
                  IN  /\ csFrames'[d + 1].buf
                           = sublist[value + SubrBias(csFont.charstringtype, Len(sublist)) + 1]
                      /\ csFrames'[d + 1].pc = 0
                      /\ csFrames'[d].pc = top.pc + 1
                      /\ csStack' = SubSeq(csStack, 1, Len(csStack) - 1)
                      /\ csNhints' = csNhints
             /\ (d > 1 /\ top.ret) => csFrames' = SubSeq(csFrames, 1, d - 1)
             /\ Len(csFrames') = d - 1 => UNCHANGED <<csStack, csNhints, csOps>>]_vars

\* C25: a charstring with an unknown or reserved operator before any endchar
\* gives no glyph: charstr2path does not return for it.
C25_UnknownOperatorRaises ==
    csState = "done" => ~csLog.broke

\* The first operator of the charstring is one that takes a width in front
\* of its own operands: key is the operator, n the number of stack values.
C26_TakesWidth(key, n) ==
    \/ key \in {1, 3, 18, 23, 19} /\ n % 2 = 1
    \/ key \in {22, 4} /\ n > 1
    \/ key = 21 /\ n > 2
    \/ key \in {14, 20} /\ n = 1

\* C26: the operator list holds at most one WIDTH entry and only in front;
\* it is there exactly when the first operator takes a width and holds the
\* bottom stack value of that moment; the glyph width is nominalwidth plus
\* that value, and defaultwidth without a WIDTH entry.
C26_WidthOnce ==
    /\ \A k \in DOMAIN csOps : csOps[k].op = -999 => k = 1
    /\ csLog.first # <<>> =>
         /\ csOps[1].op = -999 <=> C26_TakesWidth(csLog.first[1], csLog.first[2])
         /\ csOps[1].op = -999 => csOps[1].operands = <<csLog.first[3]>>
    /\ csState = "done" =>
         csOut.width * 65536
           = IF csOps # <<>> /\ csOps[1].op = -999
             THEN csFont.nominalwidth * 65536 + csOps[1].operands[1]
             ELSE csFont.defaultwidth * 65536

\* C27: a hintmask or cntrmask operator takes ceil(hintCount / 8) mask bytes
\* behind the operator byte, hintCount being the stem hints declared so far
\* by the stem operators, in subroutines too, and by the values pending at
\* the mask operator; the read goes on behind the mask.
C27_MaskBytes ==
    csLog.mask # <<>> => csLog.mask[1] = (csLog.mask[2] + 7) \div 8

\* C28: a glyf record with a negative numberOfContours is read as a
\* compound glyph and one with 0 or more contours as a simple glyph; a glyph
\* whose loca offset equals the next one is an empty glyph without operators.
C28_ContoursSign ==
    (callFn = "glyf" /\ callState = "done") =>
        LET font == callArgs.font
            offset == font.cells[font.loca + callArgs.glyphid + 1]
            nextofst == font.cells[font.loca + callArgs.glyphid + 2]
            numcontours == font.cells[font.glyf + offset + 1]
        IN  IF offset = nextofst
            THEN callResult.kind = "empty" /\ callResult.operators = <<>>
            ELSE IF numcontours < 0
            THEN callResult.kind = "compound"
            ELSE callResult.kind = "simple"

\* The operators of a contour that stand for its point i.
C29_At(i) ==
    {k \in DOMAIN callResult : k > 1 /\ callResult[k].i = i}

\* C29: a contour gives one MoveTo, in front: at the first point if that is
\* on the curve, else at the last point if that is, else midway between the
\* two.  Each off-curve point is the control point of one QuadTo, which ends
\* at the next point if that is on the curve, midway to it if it is off the
\* curve, and at the start point of the contour after the last point; each
\* on-curve point that does not end the QuadTo of the point before it gives
\* one LineTo; the operators follow the order of the points.
C29_ContourOutline ==
    (callFn = "contour" /\ callState = "done") =>
        LET p == callArgs.p
            c == callArgs.c
            n == Len(p)
            ops == callResult
            at(i) == <<2 * p[i][1], 2 * p[i][2]>>
            mid(i, j) == <<p[i][1] + p[j][1], p[i][2] + p[j][2]>>
            start == IF ~c[1] THEN at(1) ELSE IF ~c[n] THEN at(n) ELSE mid(1, n)
            only(i) == ops[CHOOSE k \in C29_At(i) : TRUE]
        IN  /\ ops[1].op = "M" /\ ops[1].to = start
            /\ \A k \in 2..Len(ops) : ops[k].op # "M" /\ ops[k].i \in 1..n
            /\ \A k \in 3..Len(ops) : ops[k - 1].i < ops[k].i
            /\ \A i \in 1..n :
                 IF c[i]
                 THEN /\ Cardinality(C29_At(i)) = 1
                      /\ only(i).op = "Q" /\ only(i).ctrl = at(i)
                      /\ only(i).to = IF i = n THEN start
                                      ELSE IF c[i + 1] THEN mid(i, i + 1) ELSE at(i + 1)
                 ELSE IF i > 1 /\ c[i - 1]
                 THEN C29_At(i) = {}
                 ELSE /\ Cardinality(C29_At(i)) = 1
                      /\ only(i).op = "L" /\ only(i).to = at(i)

\* A contour of four points that starts and ends off the curve, read.
C29_Witness ==
    /\ callFn = "contour" /\ callState = "done"
    /\ Len(callArgs.p) = 4
    /\ callArgs.c = <<TRUE, FALSE, TRUE, TRUE>>
    /\ callArgs.p[1] # callArgs.p[4]
    /\ Len(callResult) = 4

\* C30: single substitution format 1 adds deltaGlyphID modulo 65536, so the
\* glyph ids Gsub.sub returns for glyph ids in 0..65535 are in 0..65535 too.
C30_GlyphIdRange ==
    gsubState = "returned" => \A k \in DOMAIN gsubResult : gsubResult[k] \in 0..65535

====
